---- MODULE Spec2Model ----
(***************************************************************************)
(* A model of tramp's interception pipeline: the configuration cascade     *)
(* (config/cascade.rs), rule compilation and matching (rules/matcher.rs),  *)
(* the rewrite step (main.rs apply_rule) and the hook lifecycle            *)
(* (main.rs handle_command, hooks/executor.rs).                            *)
(*                                                                         *)
(* Strings are sequences of one-character strings.  Option<T> is a         *)
(* sequence of length at most one: None == <<>>, Some(x) == <<x>>.         *)
(***************************************************************************)
EXTENDS Integers, Sequences, FiniteSets, TLC

None == <<>>
Some(x) == <<x>>
IsSome(o) == o # <<>>
Unwrap(o) == o[1]

(***************************************************************************)
(* Bounds of the model.                                                    *)
(***************************************************************************)
\* the deepest starting directory has MaxDepth components
MaxDepth == 2
\* a configuration file of the matching scenarios declares at most MaxRules rules
MaxRules == 2

(***************************************************************************)
(* Strings.                                                                *)
(***************************************************************************)
RECURSIVE JoinWith(_, _)
\* slice::join(sep): the strings of a vector, sep between neighbours
JoinWith(strs, sep) ==
    IF Len(strs) = 0 THEN <<>>
    ELSE IF Len(strs) = 1 THEN strs[1]
    ELSE strs[1] \o sep \o JoinWith(Tail(strs), sep)

\* char::is_whitespace
IsWhitespace(c) == c \in {" ", "\t"}

RECURSIVE SplitWhitespaceFrom(_, _, _)
\* str::split_whitespace: the maximal runs of non-whitespace characters
SplitWhitespaceFrom(s, i, cur) ==
    IF i > Len(s) THEN (IF cur = <<>> THEN <<>> ELSE <<cur>>)
    ELSE IF IsWhitespace(s[i])
         THEN (IF cur = <<>> THEN <<>> ELSE <<cur>>) \o SplitWhitespaceFrom(s, i + 1, <<>>)
         ELSE SplitWhitespaceFrom(s, i + 1, Append(cur, s[i]))

SplitWhitespace(s) == SplitWhitespaceFrom(s, 1, <<>>)

Digit(d) == CASE d = 0 -> "0" [] d = 1 -> "1" [] d = 2 -> "2" [] d = 3 -> "3"
              [] d = 4 -> "4" [] d = 5 -> "5" [] d = 6 -> "6" [] d = 7 -> "7"
              [] d = 8 -> "8" [] d = 9 -> "9"

RECURSIVE NatToString(_)
NatToString(n) == IF n < 10 THEN <<Digit(n)>> ELSE Append(NatToString(n \div 10), Digit(n % 10))

\* i32::to_string / usize::to_string: the decimal digits, "-" before a negative number
IntToString(n) == IF n < 0 THEN <<"-">> \o NatToString(-n) ELSE NatToString(n)

(***************************************************************************)
(* Regular expressions (the regex crate), for the fragment the model's     *)
(* patterns are written in: literal characters, "." (any character),       *)
(* "\\x" (an escaped character, or a class), "x*" (greedy repetition of one *)
(* character, "." or escape), "^" and "$" (start and end of the text).     *)
(* A "(" opens a group that is never closed, a leading "*" repeats         *)
(* nothing, and a "\\" needs a character it can escape after it: Regex::new *)
(* rejects all three.                                                      *)
(***************************************************************************)
\* what may follow a backslash: punctuation (taken literally), "s" (the
\* whitespace class) and "a" (the bell character)
IsEscapable(c) == c \in {"/", "\\", "(", "#", ".", "*", "^", "$", "s", "a"}

RECURSIVE RegexValidFrom(_, _)
RegexValidFrom(p, i) ==
    IF i > Len(p) THEN TRUE
    ELSE IF p[i] = "\\" THEN i < Len(p) /\ IsEscapable(p[i + 1]) /\ RegexValidFrom(p, i + 2)
    ELSE IF p[i] = "(" THEN FALSE
    ELSE IF p[i] = "*" THEN i > 1 /\ RegexValidFrom(p, i + 1)
    ELSE RegexValidFrom(p, i + 1)

RegexValid(p) == RegexValidFrom(p, 1)

\* Regex::new: the compiled pattern, or none when the pattern is malformed
RegexNew(p) == IF RegexValid(p) THEN Some(p) ELSE None

\* the length of the atom at position i of the pattern
AtomLen(p, i) == IF p[i] = "\\" THEN 2 ELSE 1

\* the atom at position i of the pattern matches the character; no text holds a
\* bell character
AtomMatches(p, i, c) ==
    IF p[i] = "\\"
    THEN (IF p[i + 1] = "s" THEN IsWhitespace(c) ELSE p[i + 1] # "a" /\ p[i + 1] = c)
    ELSE p[i] = "." \/ p[i] = c

RECURSIVE RunLength(_, _, _, _)
\* how many characters of s from position j on the atom at p[i] matches in a row
RunLength(p, i, s, j) ==
    IF j <= Len(s) /\ AtomMatches(p, i, s[j]) THEN 1 + RunLength(p, i, s, j + 1) ELSE 0

RECURSIVE MatchHere(_, _, _, _)
RECURSIVE MatchStar(_, _, _, _, _)
RECURSIVE MatchStarOr(_, _, _, _, _, _)
\* the end (the position after the last character) of the preferred match of
\* p[i..] at position j of s, or 0 when there is none
MatchHere(p, i, s, j) ==
    IF i > Len(p) THEN j
    ELSE IF p[i] = "^" THEN (IF j = 1 THEN MatchHere(p, i + 1, s, j) ELSE 0)
    ELSE IF p[i] = "$" THEN (IF j = Len(s) + 1 THEN MatchHere(p, i + 1, s, j) ELSE 0)
    ELSE IF i + AtomLen(p, i) <= Len(p) /\ p[i + AtomLen(p, i)] = "*"
         THEN MatchStar(p, i, s, j, RunLength(p, i, s, j))
    ELSE IF j <= Len(s) /\ AtomMatches(p, i, s[j]) THEN MatchHere(p, i + AtomLen(p, i), s, j + 1)
    ELSE 0

\* greedy: the longest run first, then shorter ones
MatchStar(p, i, s, j, k) ==
    MatchStarOr(p, i, s, j, k, MatchHere(p, i + AtomLen(p, i) + 1, s, j + k))

\* r is where the rest of the pattern ends after a run of k
MatchStarOr(p, i, s, j, k, r) ==
    IF r # 0 THEN r
    ELSE IF k = 0 THEN 0
    ELSE MatchStar(p, i, s, j, k - 1)

\* Regex::is_match: the pattern matches somewhere in the text
IsMatch(p, s) == \E j \in 1..(Len(s) + 1) : MatchHere(p, 1, s, j) # 0

\* Regex::find_at: the leftmost match that starts at position from or later, as
\* <<start, end>> (end is the position after the match), or <<>> when there is none
RECURSIVE FindAt(_, _, _)
RECURSIVE FindAtOr(_, _, _, _)
FindAt(p, s, from) ==
    IF from > Len(s) + 1 THEN <<>>
    ELSE FindAtOr(p, s, from, MatchHere(p, 1, s, from))

\* e is where a match that starts at position from ends
FindAtOr(p, s, from, e) == IF e # 0 THEN <<from, e>> ELSE FindAt(p, s, from + 1)

\* an empty match m at the end of the previous match gives way to the next one
SkipEmpty(p, s, from, last_end, m) ==
    IF m # <<>> /\ m[1] = m[2] /\ m[2] = last_end THEN FindAt(p, s, from + 1) ELSE m

\* Regex::find_iter: the successive non-overlapping matches.  An empty match at the
\* end of the previous match is dropped and the search starts again one character on.
RECURSIVE FindIter(_, _, _, _)
RECURSIVE FindIterFrom(_, _, _)
FindIter(p, s, from, last_end) == FindIterFrom(p, s, SkipEmpty(p, s, from, last_end, FindAt(p, s, from)))

\* the match m and the matches after it
FindIterFrom(p, s, m) == IF m = <<>> THEN <<>> ELSE <<m>> \o FindIter(p, s, m[2], m[2])

\* a character of a group name: a letter, a digit or an underscore
IsNameChar(c) ==
    c \in {"0", "1", "2", "3", "4", "5", "6", "7", "8", "9", "_",
           "a", "b", "c", "d", "e", "f", "g", "h", "i", "j", "k", "l", "m",
           "n", "o", "p", "q", "r", "s", "t", "u", "v", "w", "x", "y", "z",
           "A", "B", "C", "D", "E", "F", "G", "H", "I", "J", "K", "L", "M",
           "N", "O", "P", "Q", "R", "S", "T", "U", "V", "W", "X", "Y", "Z"}

RECURSIVE NameEnd(_, _)
\* the position after the longest group name that starts at position i
NameEnd(rep, i) == IF i <= Len(rep) /\ IsNameChar(rep[i]) THEN NameEnd(rep, i + 1) ELSE i

RECURSIVE ExpandFrom(_, _, _)
\* the replacement template with its group references filled in: $0 is the whole
\* match, any other name is a group the fragment's patterns do not have (empty),
\* $$ is a dollar sign
ExpandFrom(rep, i, whole) ==
    IF i > Len(rep) THEN <<>>
    ELSE IF rep[i] # "$" THEN <<rep[i]>> \o ExpandFrom(rep, i + 1, whole)
    ELSE IF i < Len(rep) /\ rep[i + 1] = "$" THEN <<"$">> \o ExpandFrom(rep, i + 2, whole)
    ELSE LET e == NameEnd(rep, i + 1)
         IN  IF e = i + 1 THEN <<"$">> \o ExpandFrom(rep, i + 1, whole)
             ELSE (IF SubSeq(rep, i + 1, e - 1) = <<"0">> THEN whole ELSE <<>>)
                     \o ExpandFrom(rep, e, whole)

RECURSIVE ReplaceMatches(_, _, _, _)
\* s from position from on, with each of the matches ms replaced
ReplaceMatches(s, from, ms, rep) ==
    IF ms = <<>> THEN SubSeq(s, from, Len(s))
    ELSE SubSeq(s, from, ms[1][1] - 1)
            \o ExpandFrom(rep, 1, SubSeq(s, ms[1][1], ms[1][2] - 1))
            \o ReplaceMatches(s, ms[1][2], Tail(ms), rep)

\* Regex::replace_all
ReplaceAll(p, s, rep) == ReplaceMatches(s, 1, FindIter(p, s, 1, 0), rep)

FirstOf(ms) == IF ms = <<>> THEN <<>> ELSE <<ms[1]>>

\* Regex::replace: the first match only
ReplaceFirst(p, s, rep) == ReplaceMatches(s, 1, FirstOf(FindIter(p, s, 1, 0)), rep)

(***************************************************************************)
(* Substitutions (rules/rewriter.rs).                                      *)
(***************************************************************************)
\* a character that UTF-8 encodes in two bytes
TwoByteChar == "U+00A7"
ByteLen(c) == IF c = TwoByteChar THEN 2 ELSE 1

RECURSIVE SplitByDelimiterFrom(_, _, _, _, _, _)
\* split_by_delimiter's loop: parts, current and escape_next at position i
SplitByDelimiterFrom(input, i, delimiter, parts, current, escape_next) ==
    IF i > Len(input) THEN Append(parts, current)
    ELSE LET c == input[i]
         IN  IF escape_next
             THEN SplitByDelimiterFrom(input, i + 1, delimiter, parts, Append(current, c), FALSE)
             ELSE IF c = "\\"
             THEN IF i < Len(input) /\ input[i + 1] = delimiter
                  THEN SplitByDelimiterFrom(input, i + 1, delimiter, parts, current, TRUE)
                  ELSE SplitByDelimiterFrom(input, i + 1, delimiter, parts, Append(current, c), FALSE)
             ELSE IF c = delimiter
             THEN SplitByDelimiterFrom(input, i + 1, delimiter, Append(parts, current), <<>>, FALSE)
             ELSE SplitByDelimiterFrom(input, i + 1, delimiter, parts, Append(current, c), FALSE)

RECURSIVE SplitAtEveryDelimiter(_, _, _, _, _)
SplitAtEveryDelimiter(input, i, delimiter, parts, current) ==
    IF i > Len(input) THEN Append(parts, current)
    ELSE IF input[i] = delimiter
         THEN SplitAtEveryDelimiter(input, i + 1, delimiter, Append(parts, current), <<>>)
         ELSE SplitAtEveryDelimiter(input, i + 1, delimiter, parts, Append(current, input[i]))

\* split_by_delimiter gone wrong: a backslash escapes nothing
SplitByDelimiterUnescaped(input, delimiter) ==
    SplitAtEveryDelimiter(input, 1, delimiter, <<>>, <<>>)

\* split_by_delimiter
SplitByDelimiter(input, delimiter) ==
    SplitByDelimiterFrom(input, 1, delimiter, <<>>, <<>>, FALSE)

InvalidRegex(pattern) == [kind |-> "InvalidRegex", pattern |-> pattern]

\* the end of Substitution::parse: the pattern is compiled
BuildSubstitution(pattern_str, replacement, flags) ==
    IF IsSome(RegexNew(pattern_str))
    THEN [kind |-> "ok",
          sub |-> [pattern |-> Unwrap(RegexNew(pattern_str)),
                   replacement |-> replacement,
                   global |-> \E i \in 1..Len(flags) : flags[i] = "g"]]
    ELSE [kind |-> "err", err |-> InvalidRegex(pattern_str)]

\* Substitution::parse once the input is split into parts
ParseParts(input, parts) ==
    IF Len(parts) < 2
    THEN [kind |-> "err", err |-> InvalidRegex(input)]
    ELSE BuildSubstitution(parts[1], parts[2], IF Len(parts) > 2 THEN parts[3] ELSE <<>>)

\* Substitution::parse.  &input[2..] slices at byte 2, which lies inside the
\* delimiter when the delimiter takes more than one byte: the slice panics.
SubstitutionParse(input) ==
    IF Len(input) = 0 \/ input[1] # "s"
    THEN [kind |-> "err", err |-> InvalidRegex(input)]
    ELSE IF Len(input) < 2
    THEN [kind |-> "err", err |-> InvalidRegex(input)]
    ELSE IF ByteLen(input[2]) # 1
    THEN [kind |-> "panic"]
    ELSE ParseParts(input, SplitByDelimiter(SubSeq(input, 3, Len(input)), input[2]))

\* Substitution::apply gone wrong: every match is replaced, whatever the flags
SubstitutionApplyAll(sub, input) == ReplaceAll(sub.pattern, input, sub.replacement)

\* Substitution::apply
SubstitutionApply(sub, input) ==
    IF sub.global
    THEN ReplaceAll(sub.pattern, input, sub.replacement)
    ELSE ReplaceFirst(sub.pattern, input, sub.replacement)

\* rewrite_args gone wrong: each argument is rewritten on its own
RewriteArgsEach(args, substitution) ==
    [i \in 1..Len(args) |-> SubstitutionApply(substitution, args[i])]

\* rewrite_args gone wrong: arguments that the substitution leaves as they are
\* are returned without the split
RewriteArgsUnlessUnchanged(args, substitution) ==
    IF SubstitutionApply(substitution, JoinWith(args, <<" ">>)) = JoinWith(args, <<" ">>)
    THEN args
    ELSE SplitWhitespace(SubstitutionApply(substitution, JoinWith(args, <<" ">>)))

\* rewrite_args
RewriteArgs(args, substitution) ==
    SplitWhitespace(SubstitutionApply(substitution, JoinWith(args, <<" ">>)))

\* rewrite_command gone wrong: the binary is kept, the first part is dropped
SplitCommandKeepingBinary(binary, parts) ==
    IF parts = <<>>
    THEN [binary |-> binary, args |-> <<>>]
    ELSE [binary |-> binary, args |-> Tail(parts)]

\* rewrite_command gone wrong: without parts there is no binary
SplitCommandWithoutFallback(binary, parts) ==
    IF parts = <<>>
    THEN [binary |-> <<>>, args |-> <<>>]
    ELSE [binary |-> parts[1], args |-> Tail(parts)]

\* the end of rewrite_command: the first part is the binary
SplitCommand(binary, parts) ==
    IF parts = <<>>
    THEN [binary |-> binary, args |-> <<>>]
    ELSE [binary |-> parts[1], args |-> Tail(parts)]

\* rewrite_command
RewriteCommand(binary, args, substitution) ==
    SplitCommand(binary,
        SplitWhitespace(SubstitutionApply(substitution, JoinWith(<<binary>> \o args, <<" ">>))))

(***************************************************************************)
(* Rules and configuration files (config/types.rs, config/parser.rs).      *)
(***************************************************************************)
\* Rule::default(): no pattern, no rewrite, no hook
DefaultRule ==
    [binary_pattern |-> None, cwd_pattern |-> None,
     arg_rewrite |-> None, command_rewrite |-> None, alternate_command |-> None,
     pre_hook |-> None, post_hook |-> None, intercept_hook |-> None]

RECURSIVE FilterSet(_)
\* the names of the rewrite fields that are set, in the order of the array
FilterSet(fields) ==
    IF fields = <<>> THEN <<>>
    ELSE (IF fields[1][2] THEN <<fields[1][1]>> ELSE <<>>) \o FilterSet(Tail(fields))

\* Rule::validate gone wrong: the last two of the set fields are named
RuleValidateLastTwo(rule) ==
    LET rewrite_fields == << <<"arg_rewrite", IsSome(rule.arg_rewrite)>>,
                             <<"command_rewrite", IsSome(rule.command_rewrite)>>,
                             <<"alternate_command", IsSome(rule.alternate_command)>> >>
        set_fields == FilterSet(rewrite_fields)
    IN  IF Len(set_fields) > 1
        THEN [ok |-> FALSE,
              err |-> [kind |-> "MutuallyExclusive",
                       option1 |-> set_fields[Len(set_fields) - 1],
                       option2 |-> set_fields[Len(set_fields)]]]
        ELSE [ok |-> TRUE]

\* Rule::validate: at most one rewrite field may be set
RuleValidate(rule) ==
    LET rewrite_fields == << <<"arg_rewrite", IsSome(rule.arg_rewrite)>>,
                             <<"command_rewrite", IsSome(rule.command_rewrite)>>,
                             <<"alternate_command", IsSome(rule.alternate_command)>> >>
        set_fields == FilterSet(rewrite_fields)
    IN  IF Len(set_fields) > 1
        THEN [ok |-> FALSE,
              err |-> [kind |-> "MutuallyExclusive",
                       option1 |-> set_fields[1], option2 |-> set_fields[2]]]
        ELSE [ok |-> TRUE]

RECURSIVE ConfigValidateFrom(_, _)
\* Config::validate: the first rule that fails validation decides
ConfigValidateFrom(rules, i) ==
    IF i > Len(rules) THEN [ok |-> TRUE]
    ELSE LET r == RuleValidate(rules[i])
         IN  IF r.ok THEN ConfigValidateFrom(rules, i + 1) ELSE r

ConfigValidate(config) == ConfigValidateFrom(config.rules, 1)

\* A file is absent, unreadable, not TOML, or TOML that deserializes to a Config.
AbsentFile == [kind |-> "absent"]
UnreadableFile == [kind |-> "unreadable"]
MalformedFile == [kind |-> "malformed"]
TomlFile(config) == [kind |-> "toml", config |-> config]

\* Path::exists on a file of the model
FileExists(file) == file.kind # "absent"

\* parse_config_file gone wrong: a file that cannot be used counts as an empty config
ParseConfigFileLenient(file, path) ==
    IF file.kind \in {"unreadable", "malformed"} \/ ~ConfigValidate(file.config).ok
    THEN [ok |-> TRUE,
          config |-> [root |-> FALSE, no_external_lookup |-> FALSE,
                      root_config_lookup_disable_env_var |-> None, rules |-> <<>>]]
    ELSE [ok |-> TRUE, config |-> file.config]

\* parse_config_file with parse_config_str: read, deserialize, validate
ParseConfigFile(file, path) ==
    IF file.kind = "unreadable"
    THEN [ok |-> FALSE, err |-> [kind |-> "ConfigReadError", path |-> path]]
    ELSE IF file.kind = "malformed"
    THEN [ok |-> FALSE, err |-> [kind |-> "ConfigParseError", path |-> path]]
    ELSE LET v == ConfigValidate(file.config)
         IN  IF v.ok THEN [ok |-> TRUE, config |-> file.config]
             ELSE [ok |-> FALSE, err |-> v.err]

(***************************************************************************)
(* Directories.  A directory is the sequence of its components; the root   *)
(* directory is the empty sequence and has no parent.                      *)
(***************************************************************************)
Component(k) == CASE k = 1 -> "p" [] k = 2 -> "q" [] k = 3 -> "r" [] OTHER -> "t"

\* the directory k levels below the root on the model's one branch
DirAt(k) == [i \in 1..k |-> Component(i)]

Dirs == {DirAt(k) : k \in 0..MaxDepth}

\* a home directory off the branch
OtherHome == <<"h">>

\* Path::parent gone wrong: the root directory is its own parent
ParentOfRootIsRoot(dir) == IF dir = <<>> THEN Some(dir) ELSE Some(SubSeq(dir, 1, Len(dir) - 1))

\* Path::parent
Parent(dir) == IF dir = <<>> THEN None ELSE Some(SubSeq(dir, 1, Len(dir) - 1))

\* Path::join(".tramp.toml")
ConfigPath(dir) == Append(dir, ".tramp.toml")

RECURSIVE DirStr(_)
\* Path::to_string_lossy of a directory
DirStr(dir) ==
    IF dir = <<>> THEN <<"/">>
    ELSE IF Len(dir) = 1 THEN <<"/", dir[1]>>
    ELSE DirStr(SubSeq(dir, 1, Len(dir) - 1)) \o <<"/", dir[Len(dir)]>>

(***************************************************************************)
(* The environment (config/cascade.rs is_env_truthy).                      *)
(***************************************************************************)
ToLowerChar(c) ==
    CASE c = "F" -> "f" [] c = "A" -> "a" [] c = "L" -> "l" [] c = "S" -> "s"
      [] c = "E" -> "e" [] c = "N" -> "n" [] c = "O" -> "o" [] c = "Y" -> "y"
      [] OTHER -> c

\* str::to_lowercase
ToLowercase(s) == [i \in 1..Len(s) |-> ToLowerChar(s[i])]

\* is_env_truthy gone wrong: the value is compared as it is written
IsEnvTruthyCaseSensitive(value) ==
    IF IsSome(value)
    THEN /\ Unwrap(value) # <<>>
         /\ Unwrap(value) # <<"0">>
         /\ Unwrap(value) # <<"f", "a", "l", "s", "e">>
         /\ Unwrap(value) # <<"n", "o">>
    ELSE FALSE

\* is_env_truthy: value is the variable's value, or none when it is not set
IsEnvTruthy(value) ==
    IF IsSome(value)
    THEN LET lower == ToLowercase(Unwrap(value))
         IN  /\ Unwrap(value) # <<>>
             /\ lower # <<"0">>
             /\ lower # <<"f", "a", "l", "s", "e">>
             /\ lower # <<"n", "o">>
    ELSE FALSE

(***************************************************************************)
(* Command resolution (exec/mod.rs).  The search path and the files that   *)
(* exist are fixed.                                                        *)
(***************************************************************************)
\* the directories of PATH, in order
PathVar == << <<"/", "b">>, <<"/", "u">> >>

ExistingPaths ==
    { <<"/", "b", "/", "e">>, <<"/", "u", "/", "e">>, <<"/", "u", "/", "c">> }

PathExists(path) == path \in ExistingPaths

IsAbsolute(path) == Len(path) > 0 /\ path[1] = "/"

RECURSIVE SearchPath(_, _)
\* the loop over PATH: the first directory that holds the command wins
SearchPath(command, i) ==
    IF i > Len(PathVar) THEN None
    ELSE LET full_path == PathVar[i] \o <<"/">> \o command
         IN  IF PathExists(full_path) THEN Some(full_path) ELSE SearchPath(command, i + 1)

\* resolve_command
ResolveCommand(command) ==
    IF IsAbsolute(command)
    THEN (IF PathExists(command) THEN Some(command) ELSE None)
    ELSE SearchPath(command, 1)

(***************************************************************************)
(* Rule compilation and matching (rules/matcher.rs).                       *)
(***************************************************************************)
\* CompiledRule::from_rule_with_source: the binary pattern is compiled first
CompileRule(rws) ==
    LET bp == rws.rule.binary_pattern
        cp == rws.rule.cwd_pattern
    IN  IF IsSome(bp) /\ ~IsSome(RegexNew(Unwrap(bp)))
        THEN [ok |-> FALSE, err |-> InvalidRegex(Unwrap(bp))]
        ELSE IF IsSome(cp) /\ ~IsSome(RegexNew(Unwrap(cp)))
        THEN [ok |-> FALSE, err |-> InvalidRegex(Unwrap(cp))]
        ELSE [ok |-> TRUE,
              rule |-> [rule |-> rws.rule,
                        binary_regex |-> IF IsSome(bp) THEN RegexNew(Unwrap(bp)) ELSE None,
                        cwd_regex |-> IF IsSome(cp) THEN RegexNew(Unwrap(cp)) ELSE None,
                        source |-> rws.source]]

RECURSIVE CompileRulesSkipping(_, _, _)
\* compile_rules gone wrong: a rule that does not compile is left out
CompileRulesSkipping(rwss, i, acc) ==
    IF i > Len(rwss) THEN [ok |-> TRUE, rules |-> acc]
    ELSE IF CompileRule(rwss[i]).ok
         THEN CompileRulesSkipping(rwss, i + 1, Append(acc, CompileRule(rwss[i]).rule))
         ELSE CompileRulesSkipping(rwss, i + 1, acc)

RECURSIVE CompileRulesFrom(_, _, _)
\* collect() into a Result: the first rule that fails to compile ends it
CompileRulesFrom(rwss, i, acc) ==
    IF i > Len(rwss) THEN [ok |-> TRUE, rules |-> acc]
    ELSE LET c == CompileRule(rwss[i])
         IN  IF c.ok THEN CompileRulesFrom(rwss, i + 1, Append(acc, c.rule))
             ELSE [ok |-> FALSE, err |-> c.err]

\* compile_rules
CompileRules(config) == CompileRulesFrom(config.rules, 1, <<>>)

\* CompiledRule::matches gone wrong: either pattern matching is enough
MatchesEither(rule, ctx) ==
    \/ ~IsSome(rule.binary_regex) /\ ~IsSome(rule.cwd_regex)
    \/ IsSome(rule.binary_regex) /\ IsMatch(Unwrap(rule.binary_regex), ctx.binary_path)
    \/ IsSome(rule.cwd_regex) /\ IsMatch(Unwrap(rule.cwd_regex), ctx.cwd)

\* CompiledRule::matches
\* CompiledRule::matches gone wrong: a rule with a binary pattern is tried against
\* the first argument when there is one
MatchesFirstArgument(rule, ctx) ==
    LET subject == IF ctx.args # <<>> THEN ctx.args[1] ELSE ctx.binary_path
    IN  IF IsSome(rule.binary_regex) /\ ~IsMatch(Unwrap(rule.binary_regex), subject)
        THEN FALSE
        ELSE IF IsSome(rule.cwd_regex) /\ ~IsMatch(Unwrap(rule.cwd_regex), ctx.cwd)
        THEN FALSE
        ELSE TRUE

\* CompiledRule::matches
Matches(rule, ctx) ==
    IF IsSome(rule.binary_regex) /\ ~IsMatch(Unwrap(rule.binary_regex), ctx.binary_path)
    THEN FALSE
    ELSE IF IsSome(rule.cwd_regex) /\ ~IsMatch(Unwrap(rule.cwd_regex), ctx.cwd)
    THEN FALSE
    ELSE TRUE

RECURSIVE FindLastFrom(_, _, _)
\* find_matching_rule gone wrong: the last matching rule wins
FindLastFrom(rs, ctx, i) ==
    IF i < 1 THEN None
    ELSE IF Matches(rs[i], ctx) THEN Some(i)
    ELSE FindLastFrom(rs, ctx, i - 1)

FindLastMatchingRule(rs, ctx) == FindLastFrom(rs, ctx, Len(rs))

RECURSIVE FindFrom(_, _, _)
\* Iterator::find: the rules are tried in list order
FindFrom(rs, ctx, i) ==
    IF i > Len(rs) THEN None
    ELSE IF Matches(rs[i], ctx) THEN Some(i)
    ELSE FindFrom(rs, ctx, i + 1)

\* find_matching_rule: the index of the rule it returns a reference to
FindMatchingRule(rs, ctx) == FindFrom(rs, ctx, 1)

(***************************************************************************)
(* The rewrite step (main.rs apply_rule).                                  *)
(***************************************************************************)
ApplyOk(binary, args) == [kind |-> "ok", binary |-> binary, args |-> args]
ApplyErr(e) == [kind |-> "err", err |-> e]

\* apply_rule gone wrong: an alternate command that is not found is run as given
ApplyAlternateUnresolved(args, alternate, alt_path) ==
    IF IsSome(alt_path) THEN ApplyOk(Unwrap(alt_path), args)
    ELSE ApplyOk(alternate, args)

\* apply_rule, the alternate command: alt_path is what it resolved to
ApplyAlternate(args, alternate, alt_path) ==
    IF IsSome(alt_path) THEN ApplyOk(Unwrap(alt_path), args)
    ELSE ApplyErr([kind |-> "AlternateCommandNotFound", command |-> alternate])

\* apply_rule, arg_rewrite: parsed is what Substitution::parse returned
ApplyArgRewrite(binary, args, parsed) ==
    IF parsed.kind = "ok" THEN ApplyOk(binary, RewriteArgs(args, parsed.sub))
    ELSE IF parsed.kind = "err" THEN ApplyErr(parsed.err)
    ELSE [kind |-> "panic"]

\* apply_rule, command_rewrite: the rewritten binary is resolved on the search path
ResolveRewritten(rewritten, new_binary) ==
    IF IsSome(new_binary) THEN ApplyOk(Unwrap(new_binary), rewritten.args)
    ELSE ApplyErr([kind |-> "RewrittenCommandNotFound", command |-> rewritten.binary])

ApplyRewritten(rewritten) == ResolveRewritten(rewritten, ResolveCommand(rewritten.binary))

\* apply_rule, command_rewrite: parsed is what Substitution::parse returned
ApplyCommandRewrite(binary, args, parsed) ==
    IF parsed.kind = "ok" THEN ApplyRewritten(RewriteCommand(binary, args, parsed.sub))
    ELSE IF parsed.kind = "err" THEN ApplyErr(parsed.err)
    ELSE [kind |-> "panic"]

\* apply_rule gone wrong: the alternate command is not looked at
ApplyRuleIgnoringAlternate(binary, args, rule) ==
    IF IsSome(rule.arg_rewrite)
    THEN ApplyArgRewrite(binary, args, SubstitutionParse(Unwrap(rule.arg_rewrite)))
    ELSE IF IsSome(rule.command_rewrite)
    THEN ApplyCommandRewrite(binary, args, SubstitutionParse(Unwrap(rule.command_rewrite)))
    ELSE ApplyOk(binary, args)

\* apply_rule
ApplyRule(binary, args, rule) ==
    IF IsSome(rule.alternate_command)
    THEN ApplyAlternate(args, Unwrap(rule.alternate_command),
                        ResolveCommand(Unwrap(rule.alternate_command)))
    ELSE IF IsSome(rule.arg_rewrite)
    THEN ApplyArgRewrite(binary, args, SubstitutionParse(Unwrap(rule.arg_rewrite)))
    ELSE IF IsSome(rule.command_rewrite)
    THEN ApplyCommandRewrite(binary, args, SubstitutionParse(Unwrap(rule.command_rewrite)))
    ELSE ApplyOk(binary, args)

(***************************************************************************)
(* Hook environments (hooks/executor.rs).  An environment is a function    *)
(* from keys to strings; a key is a tuple, the name alone or, for the      *)
(* TRAMP_ORIGINAL_ARG_<i> family, the prefix and the index.                *)
(***************************************************************************)
\* HookType::as_str
HookTypeStr(hook_type) ==
    CASE hook_type = "Pre" -> <<"p", "r", "e">>
      [] hook_type = "Post" -> <<"p", "o", "s", "t">>
      [] hook_type = "Intercept" -> <<"i", "n", "t", "e", "r", "c", "e", "p", "t">>

ArgKey(i) == <<"TRAMP_ORIGINAL_ARG_", i>>

\* build_hook_env
BuildHookEnv(ctx) ==
    LET always ==
            (<<"TRAMP_ORIGINAL_BINARY">> :> ctx.original_binary)
         @@ (<<"TRAMP_ORIGINAL_ARGS">> :> JoinWith(ctx.original_args, <<" ">>))
         @@ (<<"TRAMP_ORIGINAL_ARGC">> :> IntToString(Len(ctx.original_args)))
         @@ [k \in {ArgKey(i - 1) : i \in 1..Len(ctx.original_args)} |->
                ctx.original_args[k[2] + 1]]
         @@ (<<"TRAMP_CWD">> :> ctx.cwd)
         @@ (<<"TRAMP_HOOK_TYPE">> :> HookTypeStr(ctx.hook_type))
        executed_binary ==
            IF IsSome(ctx.executed_binary)
            THEN <<"TRAMP_EXECUTED_BINARY">> :> Unwrap(ctx.executed_binary)
            ELSE <<>>
        executed_args ==
            IF IsSome(ctx.executed_args)
            THEN <<"TRAMP_EXECUTED_ARGS">> :> JoinWith(Unwrap(ctx.executed_args), <<" ">>)
            ELSE <<>>
        exit ==
            IF IsSome(ctx.exit_code)
            THEN <<"TRAMP_EXIT_CODE">> :> IntToString(Unwrap(ctx.exit_code))
            ELSE <<>>
    IN  always @@ executed_binary @@ executed_args @@ exit

HookContext(original_binary, original_args, dir, hook_type, executed_binary, executed_args, code) ==
    [original_binary |-> original_binary, original_args |-> original_args, cwd |-> dir,
     hook_type |-> hook_type, executed_binary |-> executed_binary,
     executed_args |-> executed_args, exit_code |-> code]

(***************************************************************************)
(* State.                                                                  *)
(***************************************************************************)
VARIABLES
    fs,             \* the .tramp.toml of each directory: directory -> file
    home,           \* dirs::home_dir(): Option<directory>
    env,            \* the environment: variable name -> Option<value>
    cwd,            \* the working directory, discover_configs' start_dir
    current_dir,    \* discover_configs: the directory the walk is at
    skip_cascade,   \* discover_configs: a root config was loaded
    configs,        \* discover_configs: the LoadedConfigs so far
    reads,          \* the paths handed to parse_config_file, in order
    merged,         \* Option<MergedConfig>
    command_name,   \* handle_command: args[0]
    command_args,   \* handle_command: args[1..]
    binary_path,    \* Option<the resolved command>
    rules,          \* the compiled rules
    matched_rule,   \* Option<index into rules> of the matched rule
    final,          \* Option<[binary, args]>: what apply_rule returned
    exit_code,      \* Option<the real command's exit code>
    running,        \* Option<the child process being waited for>
    events,         \* the child processes run so far, with how each ended
    warnings,       \* the warnings printed to the error stream
    result,         \* Option<what run() returned>
    pc,             \* where the invocation is
    sub_input,      \* Substitution::parse: the input
    sub_parts,      \* Substitution::parse: Option<the parts split_by_delimiter returned>
    sub_result,     \* Option<what Substitution::parse returned>
    apply_input,    \* Substitution::apply: the input
    apply_output    \* Option<what Substitution::apply returned>

cascadeVars == <<current_dir, skip_cascade, configs, reads, merged>>
rewriterVars == <<sub_input, sub_parts, sub_result, apply_input, apply_output>>
worldVars == <<fs, home, env, cwd, command_name, command_args, rewriterVars>>
pipeVars == <<binary_path, rules, matched_rule, final, exit_code, running, events, warnings>>
vars == <<worldVars, cascadeVars, pipeVars, result, pc>>

\* no substitution is parsed or applied on its own
RewriterIdle ==
    /\ sub_input = <<>>
    /\ sub_parts = None
    /\ sub_result = None
    /\ apply_input = <<>>
    /\ apply_output = None

\* run() returned Ok(code) or Err(err)
OkResult(code) == Some([ok |-> TRUE, code |-> code])
ErrResult(e) == Some([ok |-> FALSE, err |-> e])

(***************************************************************************)
(* The cascade (config/cascade.rs).                                        *)
(***************************************************************************)
LoadedConfig(config, path) == [config |-> config, path |-> path]

\* discover_configs gone wrong: a no_external_lookup config is pushed like any
\* other and the walk goes on
WalkStepPastNoExternalLookup ==
    /\ pc = "walk"
    /\ LET config_path == ConfigPath(current_dir)
           file == fs[current_dir]
           parsed == ParseConfigFile(file, config_path)
           parent == Parent(current_dir)
       IN  IF FileExists(file)
           THEN /\ reads' = Append(reads, config_path)
                /\ IF ~parsed.ok
                   THEN /\ result' = ErrResult(parsed.err)
                        /\ pc' = "failed"
                        /\ UNCHANGED <<current_dir, skip_cascade, configs>>
                   ELSE LET skip == skip_cascade \/ parsed.config.root
                        IN  /\ skip_cascade' = skip
                            /\ configs' = Append(configs, LoadedConfig(parsed.config, config_path))
                            /\ IF skip
                               THEN pc' = "user" /\ UNCHANGED current_dir
                               ELSE IF IsSome(parent)
                               THEN pc' = "walk" /\ current_dir' = Unwrap(parent)
                               ELSE pc' = "user" /\ UNCHANGED current_dir
                            /\ UNCHANGED result
           ELSE /\ IF IsSome(parent)
                   THEN pc' = "walk" /\ current_dir' = Unwrap(parent)
                   ELSE pc' = "user" /\ UNCHANGED current_dir
                /\ UNCHANGED <<skip_cascade, configs, reads, result>>
    /\ UNCHANGED <<worldVars, pipeVars, merged>>

\* discover_configs gone wrong: a no_external_lookup config stops the walk as
\* a root config does, and the user-config lookup still runs
WalkStepThenUserLookup ==
    /\ pc = "walk"
    /\ LET config_path == ConfigPath(current_dir)
           file == fs[current_dir]
           parsed == ParseConfigFile(file, config_path)
           parent == Parent(current_dir)
       IN  IF FileExists(file)
           THEN /\ reads' = Append(reads, config_path)
                /\ IF ~parsed.ok
                   THEN /\ result' = ErrResult(parsed.err)
                        /\ pc' = "failed"
                        /\ UNCHANGED <<current_dir, skip_cascade, configs>>
                   ELSE LET skip == skip_cascade \/ parsed.config.root
                                        \/ parsed.config.no_external_lookup
                        IN  /\ skip_cascade' = skip
                            /\ configs' = Append(configs, LoadedConfig(parsed.config, config_path))
                            /\ IF skip
                               THEN pc' = "user" /\ UNCHANGED current_dir
                               ELSE IF IsSome(parent)
                               THEN pc' = "walk" /\ current_dir' = Unwrap(parent)
                               ELSE pc' = "user" /\ UNCHANGED current_dir
                            /\ UNCHANGED result
           ELSE /\ IF IsSome(parent)
                   THEN pc' = "walk" /\ current_dir' = Unwrap(parent)
                   ELSE pc' = "user" /\ UNCHANGED current_dir
                /\ UNCHANGED <<skip_cascade, configs, reads, result>>
    /\ UNCHANGED <<worldVars, pipeVars, merged>>

\* discover_configs gone wrong: a root config does not stop the walk
WalkStepIgnoringRoot ==
    /\ pc = "walk"
    /\ LET config_path == ConfigPath(current_dir)
           file == fs[current_dir]
           parsed == ParseConfigFile(file, config_path)
           parent == Parent(current_dir)
       IN  IF FileExists(file)
           THEN /\ reads' = Append(reads, config_path)
                /\ IF ~parsed.ok
                   THEN /\ result' = ErrResult(parsed.err)
                        /\ pc' = "failed"
                        /\ UNCHANGED <<current_dir, skip_cascade, configs>>
                   ELSE IF parsed.config.no_external_lookup
                   THEN /\ configs' = Append(configs, LoadedConfig(parsed.config, config_path))
                        /\ pc' = "discovered"
                        /\ UNCHANGED <<current_dir, skip_cascade, result>>
                   ELSE /\ skip_cascade' = (skip_cascade \/ parsed.config.root)
                        /\ configs' = Append(configs, LoadedConfig(parsed.config, config_path))
                        /\ IF IsSome(parent)
                           THEN pc' = "walk" /\ current_dir' = Unwrap(parent)
                           ELSE pc' = "user" /\ UNCHANGED current_dir
                        /\ UNCHANGED result
           ELSE /\ IF IsSome(parent)
                   THEN pc' = "walk" /\ current_dir' = Unwrap(parent)
                   ELSE pc' = "user" /\ UNCHANGED current_dir
                /\ UNCHANGED <<skip_cascade, configs, reads, result>>
    /\ UNCHANGED <<worldVars, pipeVars, merged>>

\* discover_configs, one turn of the loop that walks up the directory tree
WalkStep ==
    /\ pc = "walk"
    /\ LET config_path == ConfigPath(current_dir)
           file == fs[current_dir]
           parsed == ParseConfigFile(file, config_path)
           parent == Parent(current_dir)
       IN  IF FileExists(file)
           THEN /\ reads' = Append(reads, config_path)
                /\ IF ~parsed.ok
                   THEN \* parse_config_file(..)? returns the error
                        /\ result' = ErrResult(parsed.err)
                        /\ pc' = "failed"
                        /\ UNCHANGED <<current_dir, skip_cascade, configs>>
                   ELSE IF parsed.config.no_external_lookup
                   THEN \* only this config: return Ok(configs)
                        /\ configs' = Append(configs, LoadedConfig(parsed.config, config_path))
                        /\ pc' = "discovered"
                        /\ UNCHANGED <<current_dir, skip_cascade, result>>
                   ELSE LET skip == skip_cascade \/ parsed.config.root
                        IN  /\ skip_cascade' = skip
                            /\ configs' = Append(configs, LoadedConfig(parsed.config, config_path))
                            /\ IF skip
                               THEN pc' = "user" /\ UNCHANGED current_dir
                               ELSE IF IsSome(parent)
                               THEN pc' = "walk" /\ current_dir' = Unwrap(parent)
                               ELSE pc' = "user" /\ UNCHANGED current_dir
                            /\ UNCHANGED result
           ELSE /\ IF IsSome(parent)
                   THEN pc' = "walk" /\ current_dir' = Unwrap(parent)
                   ELSE pc' = "user" /\ UNCHANGED current_dir
                /\ UNCHANGED <<skip_cascade, configs, reads, result>>
    /\ UNCHANGED <<worldVars, pipeVars, merged>>

\* load_user_config's loop: some loaded config names a variable that is truthy
UserConfigDisabled(existing_configs) ==
    \E i \in 1..Len(existing_configs) :
        LET v == existing_configs[i].config.root_config_lookup_disable_env_var
        IN  IsSome(v) /\ IsEnvTruthy(env[Unwrap(v)])

\* load_user_config and the end of discover_configs
LoadUserConfig ==
    /\ pc = "user"
    /\ IF UserConfigDisabled(configs)
       THEN /\ pc' = "discovered"
            /\ UNCHANGED <<configs, reads, result>>
       ELSE IF ~IsSome(home)
       THEN /\ result' = ErrResult([kind |-> "HomeDirectoryNotFound"])
            /\ pc' = "failed"
            /\ UNCHANGED <<configs, reads>>
       ELSE LET user_config_path == ConfigPath(Unwrap(home))
                file == fs[Unwrap(home)]
                parsed == ParseConfigFile(file, user_config_path)
            IN  IF FileExists(file)
                THEN /\ reads' = Append(reads, user_config_path)
                     /\ IF parsed.ok
                        THEN /\ configs' = Append(configs, LoadedConfig(parsed.config, user_config_path))
                             /\ pc' = "discovered"
                             /\ UNCHANGED result
                        ELSE /\ result' = ErrResult(parsed.err)
                             /\ pc' = "failed"
                             /\ UNCHANGED configs
                ELSE /\ pc' = "discovered"
                     /\ UNCHANGED <<configs, reads, result>>
    /\ UNCHANGED <<worldVars, pipeVars, current_dir, skip_cascade, merged>>

RECURSIVE RulesWithSource(_, _)
\* the inner loop of merge_configs: each rule of one config with the config's path
RulesWithSource(rs, path) ==
    IF rs = <<>> THEN <<>>
    ELSE <<[rule |-> rs[1], source |-> path]>> \o RulesWithSource(Tail(rs), path)

RECURSIVE MergeConfigsPrepending(_, _, _)
\* merge_configs gone wrong: each config's rules put before those merged so far
MergeConfigsPrepending(cs, i, acc) ==
    IF i > Len(cs) THEN acc
    ELSE MergeConfigsPrepending(cs, i + 1,
            [rules |-> RulesWithSource(cs[i].config.rules, cs[i].path) \o acc.rules,
             no_external_lookup |-> acc.no_external_lookup \/ cs[i].config.no_external_lookup])

MergeConfigsReversed(cs) ==
    MergeConfigsPrepending(cs, 1, [rules |-> <<>>, no_external_lookup |-> FALSE])

RECURSIVE MergeConfigsFirstPath(_, _, _)
\* merge_configs gone wrong: every rule is tagged with the path of the first config
MergeConfigsFirstPath(cs, i, acc) ==
    IF i > Len(cs) THEN acc
    ELSE MergeConfigsFirstPath(cs, i + 1,
            [rules |-> acc.rules \o RulesWithSource(cs[i].config.rules, cs[1].path),
             no_external_lookup |-> acc.no_external_lookup \/ cs[i].config.no_external_lookup])

RECURSIVE MergeConfigsFrom(_, _, _)
MergeConfigsFrom(cs, i, acc) ==
    IF i > Len(cs) THEN acc
    ELSE MergeConfigsFrom(cs, i + 1,
            [rules |-> acc.rules \o RulesWithSource(cs[i].config.rules, cs[i].path),
             no_external_lookup |-> acc.no_external_lookup \/ cs[i].config.no_external_lookup])

\* merge_configs
MergeConfigs(cs) == MergeConfigsFrom(cs, 1, [rules |-> <<>>, no_external_lookup |-> FALSE])

\* load_merged_config, after discover_configs returned Ok
Merge ==
    /\ pc = "discovered"
    /\ merged' = Some(MergeConfigs(configs))
    /\ pc' = "merged"
    /\ UNCHANGED <<worldVars, pipeVars, current_dir, skip_cascade, configs, reads, result>>

(***************************************************************************)
(* The invocation (main.rs run and handle_command).  A blocking call that  *)
(* runs a child process takes two steps: the spawn, which may fail, and    *)
(* the child's exit, which the caller waits for.                           *)
(***************************************************************************)
\* ExitCode::FAILURE, what main returns when run() returns an error
ExitFailure == 1

\* the exit codes a child can end with, among 0..255
ExitCodes == {0, 1, 42, 255}
\* ExitStatus::code(): the exit code, or none when a signal ended the child
ExitStatuses == {Some(c) : c \in ExitCodes} \cup {None}

\* `as u8` on an i32
AsU8(n) == n % 256

\* the exit status of the tool, once run() has returned
ToolExit ==
    IF Unwrap(result).ok THEN Unwrap(result).code
    ELSE IF Unwrap(result).err.kind = "panic" THEN 101   \* a panic's exit status
    ELSE ExitFailure

TheRule == rules[Unwrap(matched_rule)].rule

CwdStr == DirStr(cwd)

\* a child process: child_env holds the variables the Command is given with envs(),
\* on top of the environment it inherits
Child(kind, program, args, child_env) ==
    [kind |-> kind, program |-> program, args |-> args, env |-> child_env, cwd |-> CwdStr]

\* a child that was spawned and has exited with the status
Exited(child, status) == [child |-> child, spawned |-> TRUE, status |-> status]
\* a child that could not be spawned
NotSpawned(child) == [child |-> child, spawned |-> FALSE, status |-> None]

\* handle_command: resolve the command to its full path
Resolve ==
    /\ pc = "start"
    /\ LET resolved == ResolveCommand(command_name)
       IN  IF IsSome(resolved)
           THEN /\ binary_path' = resolved
                /\ pc' = "walk"
                /\ UNCHANGED result
           ELSE /\ result' = ErrResult([kind |-> "CommandNotFound", command |-> command_name])
                /\ pc' = "failed"
                /\ UNCHANGED binary_path
    /\ UNCHANGED <<worldVars, cascadeVars, rules, matched_rule, final, exit_code,
                   running, events, warnings>>

\* handle_command: compile_rules(&config)?
Compile ==
    /\ pc = "merged"
    /\ LET compiled == CompileRules(Unwrap(merged))
       IN  IF compiled.ok
           THEN /\ rules' = compiled.rules
                /\ pc' = "compiled"
                /\ UNCHANGED result
           ELSE /\ result' = ErrResult(compiled.err)
                /\ pc' = "failed"
                /\ UNCHANGED rules
    /\ UNCHANGED <<worldVars, cascadeVars, binary_path, matched_rule, final, exit_code,
                   running, events, warnings>>

MatchContext == [binary_path |-> Unwrap(binary_path), cwd |-> CwdStr, args |-> command_args]

\* handle_command: find_matching_rule(&rules, &ctx)
FindMatch ==
    /\ pc = "compiled"
    /\ matched_rule' = FindMatchingRule(rules, MatchContext)
    /\ pc' = "matched"
    /\ UNCHANGED <<worldVars, cascadeVars, binary_path, rules, final, exit_code,
                   running, events, warnings, result>>

\* handle_command gone wrong: when apply_rule fails the command is run as it was given
RewrittenOrOriginal(applied) ==
    /\ final' = Some(IF applied.kind = "ok"
                     THEN [binary |-> applied.binary, args |-> applied.args]
                     ELSE [binary |-> Unwrap(binary_path), args |-> command_args])
    /\ pc' = "pre"
    /\ UNCHANGED result

\* handle_command: applied is what apply_rule returned, or the command as it is
Rewritten(applied) ==
    IF applied.kind = "ok"
    THEN /\ final' = Some([binary |-> applied.binary, args |-> applied.args])
         /\ pc' = "pre"
         /\ UNCHANGED result
    ELSE /\ result' = ErrResult(IF applied.kind = "err" THEN applied.err ELSE [kind |-> "panic"])
         /\ pc' = "failed"
         /\ UNCHANGED final

\* handle_command gone wrong: without a matching rule the arguments are dropped
RewriteDroppingArgs ==
    /\ pc = "matched"
    /\ Rewritten(IF IsSome(matched_rule)
                 THEN ApplyRule(Unwrap(binary_path), command_args, TheRule)
                 ELSE ApplyOk(Unwrap(binary_path), <<>>))
    /\ UNCHANGED <<worldVars, cascadeVars, binary_path, rules, matched_rule, exit_code,
                   running, events, warnings>>

\* handle_command: the final binary and arguments
Rewrite ==
    /\ pc = "matched"
    /\ Rewritten(IF IsSome(matched_rule)
                 THEN ApplyRule(Unwrap(binary_path), command_args, TheRule)
                 ELSE ApplyOk(Unwrap(binary_path), command_args))
    /\ UNCHANGED <<worldVars, cascadeVars, binary_path, rules, matched_rule, exit_code,
                   running, events, warnings>>

\* the pre-hook's context gone wrong: the command to be executed is passed on
PreHookContextExecuted ==
    HookContext(Unwrap(binary_path), command_args, CwdStr, "Pre",
                Some(Unwrap(final).binary), Some(Unwrap(final).args), None)

PreHookContext ==
    HookContext(Unwrap(binary_path), command_args, CwdStr, "Pre", None, None, None)

\* handle_command: execute_pre_hook is called when the matched rule has a pre-hook
PreHook ==
    /\ pc = "pre"
    /\ IF IsSome(matched_rule) /\ IsSome(TheRule.pre_hook)
       THEN LET child == Child("pre", Unwrap(TheRule.pre_hook), <<>>, BuildHookEnv(PreHookContext))
            IN  \E spawned \in BOOLEAN :
                   IF spawned
                   THEN /\ running' = Some(child)
                        /\ pc' = "pre_wait"
                        /\ UNCHANGED <<events, result>>
                   ELSE \* cmd.status() failed: HookFailed
                        /\ events' = Append(events, NotSpawned(child))
                        /\ result' = ErrResult([kind |-> "HookFailed", hook_path |-> child.program])
                        /\ pc' = "failed"
                        /\ UNCHANGED running
       ELSE /\ pc' = "intercept"
            /\ UNCHANGED <<running, events, result>>
    /\ UNCHANGED <<worldVars, cascadeVars, binary_path, rules, matched_rule, final,
                   exit_code, warnings>>

\* execute_hook: status.code().unwrap_or(-1)
HookExitCode(status) == IF IsSome(status) THEN Unwrap(status) ELSE -1

\* execute_pre_hook gone wrong: the exit code of the hook is not looked at
PreHookExitIgnored ==
    /\ pc = "pre_wait"
    /\ \E status \in ExitStatuses :
          /\ events' = Append(events, Exited(Unwrap(running), status))
          /\ running' = None
          /\ pc' = "intercept"
    /\ UNCHANGED <<worldVars, cascadeVars, binary_path, rules, matched_rule, final,
                   exit_code, warnings, result>>

\* execute_pre_hook returns: a non-zero exit code is an error
PreHookExit ==
    /\ pc = "pre_wait"
    /\ \E status \in ExitStatuses :
          /\ events' = Append(events, Exited(Unwrap(running), status))
          /\ running' = None
          /\ IF HookExitCode(status) # 0
             THEN /\ result' = ErrResult([kind |-> "HookNonZeroExit",
                                          hook_path |-> Unwrap(running).program,
                                          exit_code |-> HookExitCode(status)])
                  /\ pc' = "failed"
             ELSE /\ pc' = "intercept"
                  /\ UNCHANGED result
    /\ UNCHANGED <<worldVars, cascadeVars, binary_path, rules, matched_rule, final,
                   exit_code, warnings>>

InterceptHookContext ==
    HookContext(Unwrap(binary_path), command_args, CwdStr, "Intercept",
                Some(Unwrap(final).binary), Some(Unwrap(final).args), None)

\* handle_command gone wrong: when the intercept hook cannot be started the
\* command is run instead
InterceptHookFallback ==
    /\ pc = "intercept"
    /\ IF IsSome(matched_rule) /\ IsSome(TheRule.intercept_hook)
       THEN LET child == Child("intercept", Unwrap(TheRule.intercept_hook), <<>>,
                               BuildHookEnv(InterceptHookContext))
            IN  \E spawned \in BOOLEAN :
                   IF spawned
                   THEN /\ running' = Some(child)
                        /\ pc' = "intercept_wait"
                        /\ UNCHANGED events
                   ELSE /\ events' = Append(events, NotSpawned(child))
                        /\ pc' = "exec"
                        /\ UNCHANGED running
       ELSE /\ pc' = "exec"
            /\ UNCHANGED <<running, events>>
    /\ UNCHANGED <<worldVars, cascadeVars, binary_path, rules, matched_rule, final,
                   exit_code, warnings, result>>

\* handle_command: execute_intercept_hook is called when the matched rule has an
\* intercept hook
InterceptHook ==
    /\ pc = "intercept"
    /\ IF IsSome(matched_rule) /\ IsSome(TheRule.intercept_hook)
       THEN LET child == Child("intercept", Unwrap(TheRule.intercept_hook), <<>>,
                               BuildHookEnv(InterceptHookContext))
            IN  \E spawned \in BOOLEAN :
                   IF spawned
                   THEN /\ running' = Some(child)
                        /\ pc' = "intercept_wait"
                        /\ UNCHANGED <<events, result>>
                   ELSE /\ events' = Append(events, NotSpawned(child))
                        /\ result' = ErrResult([kind |-> "HookFailed", hook_path |-> child.program])
                        /\ pc' = "failed"
                        /\ UNCHANGED running
       ELSE /\ pc' = "exec"
            /\ UNCHANGED <<running, events, result>>
    /\ UNCHANGED <<worldVars, cascadeVars, binary_path, rules, matched_rule, final,
                   exit_code, warnings>>

\* the intercept hook gone wrong: the command is run after it
InterceptHookThenCommand ==
    /\ pc = "intercept_wait"
    /\ \E status \in ExitStatuses :
          /\ events' = Append(events, Exited(Unwrap(running), status))
          /\ running' = None
          /\ pc' = "exec"
    /\ UNCHANGED <<worldVars, cascadeVars, binary_path, rules, matched_rule, final,
                   exit_code, warnings, result>>

\* the intercept hook gone wrong: success is returned whatever the hook's exit code
InterceptHookExitSuccess ==
    /\ pc = "intercept_wait"
    /\ \E status \in ExitStatuses :
          /\ events' = Append(events, Exited(Unwrap(running), status))
          /\ running' = None
          /\ result' = OkResult(0)
          /\ pc' = "done"
    /\ UNCHANGED <<worldVars, cascadeVars, binary_path, rules, matched_rule, final,
                   exit_code, warnings>>

\* the intercept hook has exited: return Ok(ExitCode::from(exit_code as u8))
InterceptHookExit ==
    /\ pc = "intercept_wait"
    /\ \E status \in ExitStatuses :
          /\ events' = Append(events, Exited(Unwrap(running), status))
          /\ running' = None
          /\ result' = OkResult(AsU8(HookExitCode(status)))
          /\ pc' = "done"
    /\ UNCHANGED <<worldVars, cascadeVars, binary_path, rules, matched_rule, final,
                   exit_code, warnings>>

\* handle_command gone wrong: a command that cannot be spawned counts as one that
\* exited with 1, and the post-hook follows
ExecuteFailureIgnored ==
    /\ pc = "exec"
    /\ LET child == Child("exec", Unwrap(final).binary, Unwrap(final).args, <<>>)
       IN  \E spawn \in {"spawned", "NotFound", "other"} :
              IF spawn = "spawned"
              THEN /\ running' = Some(child)
                   /\ pc' = "exec_wait"
                   /\ UNCHANGED <<events, exit_code>>
              ELSE /\ events' = Append(events, NotSpawned(child))
                   /\ exit_code' = Some(1)
                   /\ pc' = "post"
                   /\ UNCHANGED running
    /\ UNCHANGED <<worldVars, cascadeVars, binary_path, rules, matched_rule, final,
                   warnings, result>>

\* handle_command: execute_command(&final_binary, &final_args, &cwd)
Execute ==
    /\ pc = "exec"
    /\ LET child == Child("exec", Unwrap(final).binary, Unwrap(final).args, <<>>)
       IN  \E spawn \in {"spawned", "NotFound", "other"} :
              IF spawn = "spawned"
              THEN /\ running' = Some(child)
                   /\ pc' = "exec_wait"
                   /\ UNCHANGED <<events, result>>
              ELSE /\ events' = Append(events, NotSpawned(child))
                   /\ result' = ErrResult([kind |-> IF spawn = "NotFound" THEN "CommandNotFound"
                                                    ELSE "CommandFailed",
                                           command |-> child.program])
                   /\ pc' = "failed"
                   /\ UNCHANGED running
    /\ UNCHANGED <<worldVars, cascadeVars, binary_path, rules, matched_rule, final,
                   exit_code, warnings>>

\* the exit code gone wrong: every failure of the command is reported as 1
CommandExitCodeCollapsed(status) == IF status = Some(0) THEN 0 ELSE 1

\* handle_command: status.code().unwrap_or(1)
CommandExitCode(status) == IF IsSome(status) THEN Unwrap(status) ELSE 1

\* the command has exited
ExecuteExit ==
    /\ pc = "exec_wait"
    /\ \E status \in ExitStatuses :
          /\ events' = Append(events, Exited(Unwrap(running), status))
          /\ running' = None
          /\ exit_code' = Some(CommandExitCode(status))
          /\ pc' = "post"
    /\ UNCHANGED <<worldVars, cascadeVars, binary_path, rules, matched_rule, final,
                   warnings, result>>

\* the post-hook's context gone wrong: the executed command as the original one
PostHookContextRewritten ==
    HookContext(Unwrap(final).binary, Unwrap(final).args, CwdStr, "Post",
                Some(Unwrap(final).binary), Some(Unwrap(final).args), exit_code)

\* the post-hook's context gone wrong: the original command as the executed one
PostHookContextOriginal ==
    HookContext(Unwrap(binary_path), command_args, CwdStr, "Post",
                Some(Unwrap(binary_path)), Some(command_args), exit_code)

PostHookContext ==
    HookContext(Unwrap(binary_path), command_args, CwdStr, "Post",
                Some(Unwrap(final).binary), Some(Unwrap(final).args), exit_code)

\* handle_command: execute_post_hook is called when the matched rule has a
\* post-hook; without one, or when the hook cannot be spawned (a warning),
\* handle_command returns the command's exit code
PostHook ==
    /\ pc = "post"
    /\ IF IsSome(matched_rule) /\ IsSome(TheRule.post_hook)
       THEN LET child == Child("post", Unwrap(TheRule.post_hook), <<>>,
                               BuildHookEnv(PostHookContext))
            IN  \E spawned \in BOOLEAN :
                   IF spawned
                   THEN /\ running' = Some(child)
                        /\ pc' = "post_wait"
                        /\ UNCHANGED <<events, warnings, result>>
                   ELSE /\ events' = Append(events, NotSpawned(child))
                        /\ warnings' = Append(warnings, [kind |-> "HookFailed",
                                                         hook_path |-> child.program])
                        /\ result' = OkResult(AsU8(Unwrap(exit_code)))
                        /\ pc' = "done"
                        /\ UNCHANGED running
       ELSE /\ result' = OkResult(AsU8(Unwrap(exit_code)))
            /\ pc' = "done"
            /\ UNCHANGED <<running, events, warnings>>
    /\ UNCHANGED <<worldVars, cascadeVars, binary_path, rules, matched_rule, final, exit_code>>

\* the post-hook gone wrong: its exit code is returned
PostHookExitPropagated ==
    /\ pc = "post_wait"
    /\ \E status \in ExitStatuses :
          /\ events' = Append(events, Exited(Unwrap(running), status))
          /\ running' = None
          /\ result' = OkResult(AsU8(HookExitCode(status)))
          /\ pc' = "done"
    /\ UNCHANGED <<worldVars, cascadeVars, binary_path, rules, matched_rule, final,
                   exit_code, warnings>>

\* execute_post_hook returned Ok(code), whatever the code: nothing is printed and
\* handle_command returns the command's exit code
PostHookExit ==
    /\ pc = "post_wait"
    /\ \E status \in ExitStatuses :
          /\ events' = Append(events, Exited(Unwrap(running), status))
          /\ running' = None
          /\ result' = OkResult(AsU8(Unwrap(exit_code)))
          /\ pc' = "done"
    /\ UNCHANGED <<worldVars, cascadeVars, binary_path, rules, matched_rule, final,
                   exit_code, warnings>>

(***************************************************************************)
(* The cascade on its own: discover_configs and merge_configs from every   *)
(* starting directory of the branch, over every layout of its files.       *)
(***************************************************************************)
CI == "CI"
EnvNames == {CI}

FirstRule == [DefaultRule EXCEPT !.binary_pattern = Some(<<"e", "$">>)]
SecondRule == [DefaultRule EXCEPT !.cwd_pattern = Some(<<"^", "/", "p">>)]
\* two rewrite fields at once: Rule::validate rejects it
ExclusiveRule == [DefaultRule EXCEPT !.arg_rewrite = Some(<<"s", "/", "a", "/", "b", "/">>),
                                     !.alternate_command = Some(<<"c">>)]

Config(root, nel, var, rs) ==
    [root |-> root, no_external_lookup |-> nel,
     root_config_lookup_disable_env_var |-> var, rules |-> rs]

CascadeConfigs ==
    {Config(r, n, v, <<FirstRule, SecondRule>>) :
        r \in BOOLEAN, n \in BOOLEAN, v \in {None, Some(CI)}}

CascadeFiles ==
    {AbsentFile, MalformedFile, TomlFile(Config(FALSE, FALSE, None, <<FirstRule, ExclusiveRule>>)),
     TomlFile(Config(FALSE, FALSE, None, <<SecondRule>>))}
        \cup {TomlFile(c) : c \in CascadeConfigs}

UserFiles ==
    {AbsentFile, UnreadableFile, TomlFile(Config(FALSE, FALSE, None, <<SecondRule>>))}

\* the pipeline has not started
IdlePipeline ==
    /\ command_name = <<>>
    /\ command_args = <<>>
    /\ binary_path = None
    /\ rules = <<>>
    /\ matched_rule = None
    /\ final = None
    /\ exit_code = None
    /\ running = None
    /\ events = <<>>
    /\ warnings = <<>>

\* discover_configs(start_dir) is entered
WalkEntry ==
    /\ current_dir = cwd
    /\ skip_cascade = FALSE
    /\ configs = <<>>
    /\ reads = <<>>
    /\ merged = None
    /\ result = None

InitCascade ==
    /\ cwd \in Dirs
    /\ home \in {None, Some(OtherHome), Some(DirAt(1))}
    /\ env \in [EnvNames -> {None, Some(<<"1">>), Some(<<"0">>)}]
    /\ fs \in [Dirs \cup {OtherHome} -> CascadeFiles \cup UserFiles]
    /\ \A d \in Dirs \cup {OtherHome} :
          IF d \in Dirs /\ Len(d) <= Len(cwd) THEN fs[d] \in CascadeFiles
          ELSE IF home = Some(d) THEN fs[d] \in UserFiles
          ELSE fs[d] = AbsentFile
    /\ WalkEntry
    /\ RewriterIdle
    /\ IdlePipeline
    /\ pc = "walk"

NextCascade == WalkStep \/ LoadUserConfig \/ Merge

SpecCascade == InitCascade /\ [][NextCascade]_vars

(***************************************************************************)
(* Rule matching: every list of up to MaxRules rules over the combinations *)
(* of binary and cwd patterns, in a config of the working directory,       *)
(* against every command and working directory.                            *)
(***************************************************************************)
Commands == {<<"e">>, <<"c">>, <<"x">>}
Hello == <<"h", "e", "l", "l", "o">>
World == <<"w", "o", "r", "l", "d">>
Goodbye == <<"g", "o", "o", "d", "b", "y", "e">>

\* no argument, a, a b, aa b, hello world
ArgVectors ==
    {<<>>, << <<"a">> >>, << <<"a">>, <<"b">> >>, << <<"a", "a">>, <<"b">> >>, <<Hello, World>>}

BinaryPatterns == {None, Some(<<".", "*", "/", "e", "$">>), Some(<<"c", "$">>)}
CwdPatterns == {None, Some(<<"^", "/", "p">>), Some(<<"q", "$">>)}

MatchRules ==
    {[DefaultRule EXCEPT !.binary_pattern = b, !.cwd_pattern = c] :
        b \in BinaryPatterns, c \in CwdPatterns}
      \cup {[DefaultRule EXCEPT !.cwd_pattern = Some(<<"(">>)],
            [DefaultRule EXCEPT !.binary_pattern = Some(<<"*", "e">>)],
            [DefaultRule EXCEPT !.binary_pattern = Some(<<"*", "e">>),
                                !.cwd_pattern = Some(<<"(">>)]}

RECURSIVE SeqsUpTo(_, _)
\* the sequences of at most n elements of S
SeqsUpTo(S, n) ==
    IF n = 0 THEN {<<>>}
    ELSE LET shorter == SeqsUpTo(S, n - 1)
         IN  shorter \cup {Append(q, x) : q \in shorter, x \in S}

\* the files: one config in the working directory, nothing above it
OnlyCwdConfig(file, user_file) ==
    /\ home = Some(OtherHome)
    /\ env = [n \in EnvNames |-> None]
    /\ fs = [d \in Dirs \cup {OtherHome} |->
                IF d = cwd THEN file ELSE IF d = OtherHome THEN user_file ELSE AbsentFile]

\* handle_command(args) is entered
CommandEntry ==
    /\ binary_path = None
    /\ rules = <<>>
    /\ matched_rule = None
    /\ final = None
    /\ exit_code = None
    /\ running = None
    /\ events = <<>>
    /\ warnings = <<>>
    /\ pc = "start"

InitMatch ==
    /\ command_name \in Commands
    /\ command_args \in {<<>>, << <<"a">> >>}
    /\ cwd \in Dirs
    /\ \E rs \in SeqsUpTo(MatchRules, MaxRules) :
          OnlyCwdConfig(TomlFile(Config(FALSE, FALSE, None, rs)), AbsentFile)
    /\ WalkEntry
    /\ RewriterIdle
    /\ CommandEntry

NextMatch == Resolve \/ WalkStep \/ LoadUserConfig \/ Merge \/ Compile \/ FindMatch

SpecMatch == InitMatch /\ [][NextMatch]_vars

(***************************************************************************)
(* The whole invocation: rules with every combination of hooks and every   *)
(* rewrite strategy, alone and in pairs.                                   *)
(***************************************************************************)
EchoPattern == Some(<<".", "*", "/", "e", "$">>)

HookRules ==
    {[DefaultRule EXCEPT !.binary_pattern = EchoPattern,
                         !.pre_hook = a, !.post_hook = b, !.intercept_hook = c] :
        a \in {None, Some("pre.sh")}, b \in {None, Some("post.sh")},
        c \in {None, Some("intercept.sh")}}

AlternateCommands == {<<"c">>, <<"x">>}

\* s/a/b c/, s/a/b/g, s/hello/goodbye/, a/b (no leading s), s#a (one segment),
\* s/(/b/ (bad pattern), and s§a§b§ (a two-byte delimiter)
ArgRewrites ==
    { <<"s", "/", "a", "/", "b", " ", "c", "/">>,
      <<"s", "/">> \o Hello \o <<"/">> \o Goodbye \o <<"/">>,
      <<"s", "/", "a", "/", "b", "/", "g">>,
      <<"a", "/", "b">>,
      <<"s", "#", "a">>,
      <<"s", "/", "(", "/", "b", "/">>,
      <<"s", TwoByteChar, "a", TwoByteChar, "b", TwoByteChar>> }

\* s#/b/e#c# (the command becomes c), s#/b/e#c a# (becomes c with one more
\* argument), s/\/b\/e/x/ (becomes x, which is not on the path), s/.*// (nothing
\* is left), s/a/b/ (the binary stays)
CommandRewrites ==
    { <<"s", "#", "/", "b", "/", "e", "#", "c", "#">>,
      <<"s", "#", "/", "b", "/", "e", "#", "c", " ", "a", "#">>,
      <<"s", "/", "\\", "/", "b", "\\", "/", "e", "/", "x", "/">>,
      <<"s", "/", ".", "*", "/", "/">>,
      <<"s", "/", "a", "/", "b", "/">> }

HookedRule ==
    [DefaultRule EXCEPT !.binary_pattern = EchoPattern,
                        !.pre_hook = Some("pre.sh"), !.post_hook = Some("post.sh")]

RewriteRules ==
    {[HookedRule EXCEPT !.alternate_command = Some(a)] : a \in AlternateCommands}
      \cup {[HookedRule EXCEPT !.arg_rewrite = Some(a)] : a \in ArgRewrites}
      \cup {[HookedRule EXCEPT !.command_rewrite = Some(a)] : a \in CommandRewrites}
      \cup {[HookedRule EXCEPT !.command_rewrite = Some(<<"s", "#", "a">>)]}
      \cup {[HookedRule EXCEPT !.alternate_command = Some(<<"c">>),
                               !.intercept_hook = Some("intercept.sh")]}

\* rules to pair up: one for every command, one for cat, one below /p, one that
\* does not compile
PairRules ==
    { [DefaultRule EXCEPT !.post_hook = Some("all.sh")],
      [DefaultRule EXCEPT !.binary_pattern = Some(<<"c", "$">>), !.pre_hook = Some("cat.sh")],
      [DefaultRule EXCEPT !.cwd_pattern = Some(<<"^", "/", "p">>),
                          !.intercept_hook = Some("p.sh")],
      [DefaultRule EXCEPT !.binary_pattern = Some(<<"*", "e">>)] }

RuleLists ==
    {<<>>} \cup {<<r>> : r \in HookRules \cup RewriteRules}
           \cup {<<r1, r2>> : r1 \in PairRules, r2 \in PairRules \cup {HookedRule}}
           \cup {<<HookedRule, ExclusiveRule>>}

\* the user's config: a pre-hook for every command
UserFile == TomlFile(Config(FALSE, FALSE, None, <<[DefaultRule EXCEPT !.pre_hook = Some("user.sh")]>>))

Init ==
    /\ command_name \in Commands
    /\ command_args \in ArgVectors
    /\ cwd \in Dirs
    /\ \E file \in {AbsentFile, MalformedFile, UnreadableFile}
                     \cup {TomlFile(Config(FALSE, FALSE, None, rs)) : rs \in RuleLists},
          user_file \in {AbsentFile, UserFile, MalformedFile} :
          OnlyCwdConfig(file, user_file)
    /\ WalkEntry
    /\ RewriterIdle
    /\ CommandEntry

Next ==
    \/ Resolve \/ WalkStep \/ LoadUserConfig \/ Merge \/ Compile \/ FindMatch \/ Rewrite
    \/ PreHook \/ PreHookExit \/ InterceptHook \/ InterceptHookExit
    \/ Execute \/ ExecuteExit \/ PostHook \/ PostHookExit

Spec == Init /\ [][Next]_vars

\* handle_command is one sequential thread: each call is made as soon as the one
\* before it has returned, and a wait returns once the child has terminated
Fairness == WF_vars(Next)

\* configs for the runs to the end: none, malformed, no rule, pre- and post-hook,
\* intercept hook
LiveFiles ==
    {AbsentFile, MalformedFile}
        \cup {TomlFile(Config(FALSE, FALSE, None, rs)) :
                rs \in {<<>>, <<HookedRule>>,
                        <<[HookedRule EXCEPT !.alternate_command = Some(<<"c">>),
                                             !.intercept_hook = Some("intercept.sh")]>>}}

InitLive ==
    /\ command_name \in Commands
    /\ command_args \in {<<>>, << <<"a">> >>}
    /\ cwd \in Dirs
    /\ \E file \in LiveFiles, user_file \in {AbsentFile, UserFile} :
          OnlyCwdConfig(file, user_file)
    /\ WalkEntry
    /\ RewriterIdle
    /\ CommandEntry

\* the invocation when every hook and the executed command terminate
SpecLive == InitLive /\ [][Next]_vars /\ Fairness

(***************************************************************************)
(* What an invocation did, read off the record of its child processes.     *)
(***************************************************************************)
\* the children started so far, in the order they were started: those that have
\* returned (or could not be spawned), then the one being waited for
Children ==
    [i \in 1..Len(events) |-> events[i].child]
        \o (IF IsSome(running) THEN <<Unwrap(running)>> ELSE <<>>)

Started == [i \in 1..Len(Children) |-> Children[i].kind]

IsHook(kind) == kind \in {"pre", "intercept", "post"}

\* the orders the lifecycle allows, and their beginnings
LifecycleOrders ==
    { <<>>, <<"pre">>, <<"intercept">>, <<"exec">>,
      <<"pre", "intercept">>, <<"pre", "exec">>, <<"exec", "post">>,
      <<"pre", "exec", "post">> }

\* the hook of the matched rule for a phase
HookOf(rule, kind) ==
    CASE kind = "pre" -> rule.pre_hook
      [] kind = "intercept" -> rule.intercept_hook
      [] kind = "post" -> rule.post_hook

\* the exit code of a command that ended with the status: 1 when it has none
CodeOf(status) == IF status = <<>> THEN 1 ELSE status[1]

(***************************************************************************)
(* C1: when a rule matched, the children are started only in the order     *)
(* pre-hook, then either the intercept hook or the command followed by     *)
(* the post-hook, each at most once, each after the one before it has      *)
(* returned, and each hook is the matched rule's hook for its phase; when  *)
(* no rule matched, no hook of any phase is run.                           *)
(***************************************************************************)
C1_Lifecycle ==
    /\ Started \in LifecycleOrders
    /\ \A i \in 1..(Len(Children) - 1) : events[i].spawned
    /\ matched_rule = <<>> => \A i \in 1..Len(Started) : ~IsHook(Started[i])
    /\ matched_rule # <<>> =>
          /\ \A i \in 1..Len(Children) :
                IsHook(Started[i]) => HookOf(TheRule, Started[i]) = <<Children[i].program>>
          /\ (TheRule.pre_hook # <<>> /\ Started # <<>>) => Started[1] = "pre"
          /\ TheRule.intercept_hook # <<>> =>
                \A i \in 1..Len(Started) : Started[i] \notin {"exec", "post"}
          /\ (TheRule.post_hook # <<>> /\ pc = "done" /\ TheRule.intercept_hook = <<>>) =>
                Started[Len(Started)] = "post"

\* all three phases of a rule with a pre-hook and a post-hook have run
C1_Witness ==
    /\ pc = "done"
    /\ matched_rule # <<>>
    /\ Started = <<"pre", "exec", "post">>
    /\ \A i \in 1..Len(events) : events[i].spawned

(***************************************************************************)
(* C2: when the pre-hook of the matched rule exits with a non-zero code,   *)
(* the invocation ends with the error HookNonZeroExit: neither the         *)
(* command nor the intercept hook nor the post-hook is ever run, and the   *)
(* tool's exit status is a failure.                                        *)
(***************************************************************************)
C2_PreHookAborts ==
    \A i \in 1..Len(events) :
        (events[i].child.kind = "pre" /\ events[i].spawned /\ events[i].status # <<0>>) =>
            /\ pc = "failed"
            /\ result # <<>>
            /\ ~result[1].ok
            /\ result[1].err.kind = "HookNonZeroExit"
            /\ result[1].err.hook_path = events[i].child.program
            /\ events[i].status # <<>> => result[1].err.exit_code = events[i].status[1]
            /\ ToolExit = ExitFailure
            /\ ToolExit # 0
            /\ Started = <<"pre">>

\* the pre-hook of a rule that also has an intercept hook and a post-hook exited with 42
C2_Witness ==
    /\ pc = "failed"
    /\ matched_rule # <<>>
    /\ TheRule.intercept_hook # <<>>
    /\ TheRule.post_hook # <<>>
    /\ Len(events) = 1
    /\ events[1].child.kind = "pre"
    /\ events[1].status = <<42>>

(***************************************************************************)
(* C3: when the intercept hook of the matched rule has exited with a       *)
(* code, that code is the tool's exit code, the command is never run and   *)
(* the post-hook is never run, also when the rule has a post-hook.         *)
(***************************************************************************)
C3_InterceptReplaces ==
    \A i \in 1..Len(events) :
        (events[i].child.kind = "intercept" /\ events[i].spawned /\ events[i].status # <<>>) =>
            /\ pc = "done"
            /\ result = OkResult(events[i].status[1])
            /\ ToolExit = events[i].status[1]
            /\ i = Len(Started)
            /\ \A j \in 1..Len(Started) : Started[j] \notin {"exec", "post"}

\* after a successful pre-hook the intercept hook of a rule with a post-hook exited with 42
C3_Witness ==
    /\ pc = "done"
    /\ matched_rule # <<>>
    /\ TheRule.post_hook # <<>>
    /\ Started = <<"pre", "intercept">>
    /\ events[1].status = <<0>>
    /\ events[2].status = <<42>>
    /\ ToolExit = 42

(***************************************************************************)
(* C4: once the command has run, the invocation never becomes an error     *)
(* and the tool's exit code is the command's exit code, whatever the       *)
(* post-hook does: exit 0, exit non-zero, end on a signal, or fail to be   *)
(* spawned.                                                                *)
(***************************************************************************)
C4_PostHookKeepsExitCode ==
    \A i \in 1..Len(events) :
        (events[i].child.kind = "exec" /\ events[i].spawned) =>
            /\ pc \in {"post", "post_wait", "done"}
            /\ exit_code = <<CodeOf(events[i].status)>>
            /\ pc = "done" =>
                  /\ result = OkResult(CodeOf(events[i].status))
                  /\ ToolExit = CodeOf(events[i].status)

\* the command exited with 42 and the post-hook after it with 1
C4_Witness ==
    /\ pc = "done"
    /\ Len(events) >= 2
    /\ events[Len(events) - 1].child.kind = "exec"
    /\ events[Len(events) - 1].status = <<42>>
    /\ events[Len(events)].child.kind = "post"
    /\ events[Len(events)].spawned
    /\ events[Len(events)].status = <<1>>
    /\ ToolExit = 42

(***************************************************************************)
(* C5: a post-hook is started only after the command has returned, its     *)
(* TRAMP_EXIT_CODE is the command's exit code, and its                     *)
(* TRAMP_EXECUTED_BINARY and TRAMP_EXECUTED_ARGS are the binary and the    *)
(* arguments that apply_rule produced and that the command was run with.   *)
(***************************************************************************)
C5_PostHookSeesCommand ==
    \A i \in 1..Len(Children) :
        Children[i].kind = "post" =>
            /\ i > 1
            /\ events[i - 1].child.kind = "exec"
            /\ events[i - 1].spawned
            /\ Children[i].env[<<"TRAMP_EXIT_CODE">>] = IntToString(CodeOf(events[i - 1].status))
            /\ Children[i].env[<<"TRAMP_EXECUTED_BINARY">>] = events[i - 1].child.program
            /\ Children[i].env[<<"TRAMP_EXECUTED_ARGS">>] =
                  JoinWith(events[i - 1].child.args, <<" ">>)
            /\ ApplyRule(Unwrap(binary_path), command_args, TheRule) =
                  ApplyOk(events[i - 1].child.program, events[i - 1].child.args)

\* the rule replaced /b/e by /u/c, which exited with 42, and the post-hook was told so
C5_Witness ==
    /\ Started = <<"pre", "exec", "post">>
    /\ binary_path = << <<"/", "b", "/", "e">> >>
    /\ command_args = << <<"a">>, <<"b">> >>
    /\ events[2].status = <<42>>
    /\ Children[3].env[<<"TRAMP_EXIT_CODE">>] = <<"4", "2">>
    /\ Children[3].env[<<"TRAMP_EXECUTED_BINARY">>] = <<"/", "u", "/", "c">>
    /\ Children[3].env[<<"TRAMP_EXECUTED_ARGS">>] = <<"a", " ", "b">>

(***************************************************************************)
(* What a rule asks for, read off its patterns.                            *)
(***************************************************************************)
\* the rule's binary pattern, if it has one, is found in the binary path, and its
\* cwd pattern, if it has one, is found in the working directory
RuleHolds(rule) ==
    /\ rule.binary_pattern = <<>> \/ IsMatch(rule.binary_pattern[1], binary_path[1])
    /\ rule.cwd_pattern = <<>> \/ IsMatch(rule.cwd_pattern[1], DirStr(cwd))

\* the rules of the working directory's config, in the order of the file
ListedRules == fs[cwd].config.rules

(***************************************************************************)
(* C6: find_matching_rule returns the rule of the lowest index among the   *)
(* rules that match, however specific the later ones are, and returns no   *)
(* rule exactly when no rule of the list matches.                          *)
(***************************************************************************)
C6_FirstMatchWins ==
    pc = "matched" =>
        /\ Len(rules) = Len(ListedRules)
        /\ IF \E i \in 1..Len(ListedRules) : RuleHolds(ListedRules[i])
           THEN /\ matched_rule # <<>>
                /\ RuleHolds(ListedRules[matched_rule[1]])
                /\ \A j \in 1..(matched_rule[1] - 1) : ~RuleHolds(ListedRules[j])
                /\ rules[matched_rule[1]].rule = ListedRules[matched_rule[1]]
           ELSE matched_rule = <<>>

\* a rule without patterns comes before a rule with both patterns; both match
C6_Witness ==
    /\ pc = "matched"
    /\ Len(ListedRules) = 2
    /\ ListedRules[1].binary_pattern = <<>> /\ ListedRules[1].cwd_pattern = <<>>
    /\ ListedRules[2].binary_pattern # <<>> /\ ListedRules[2].cwd_pattern # <<>>
    /\ RuleHolds(ListedRules[2])
    /\ matched_rule = <<1>>

(***************************************************************************)
(* C7: a compiled rule matches a context exactly when its binary pattern,  *)
(* if it has one, matches the binary path and its cwd pattern, if it has   *)
(* one, matches the working directory: a rule without patterns matches     *)
(* every context, a rule with both matches only when both hold.            *)
(***************************************************************************)
C7_MatchesBothAxes ==
    pc = "matched" =>
        /\ \A i \in 1..Len(rules) :
              /\ Matches(rules[i], MatchContext) <=> RuleHolds(ListedRules[i])
              /\ (ListedRules[i].binary_pattern = <<>> /\ ListedRules[i].cwd_pattern = <<>>)
                    => Matches(rules[i], MatchContext)
        /\ Len(rules) = 1 => (matched_rule = <<1>> <=> RuleHolds(ListedRules[1]))

\* the binary pattern of the only rule matches and its cwd pattern does not
C7_Witness ==
    /\ pc = "matched"
    /\ Len(rules) = 1
    /\ ListedRules[1].binary_pattern # <<>>
    /\ ListedRules[1].cwd_pattern # <<>>
    /\ IsMatch(ListedRules[1].binary_pattern[1], binary_path[1])
    /\ ~IsMatch(ListedRules[1].cwd_pattern[1], DirStr(cwd))
    /\ matched_rule = <<>>

(***************************************************************************)
(* C8: when no rule matches, the command is run as it was given: the       *)
(* binary is the resolved command, the arguments are the original ones,    *)
(* no hook is run, and the tool's exit code is the command's exit code.    *)
(***************************************************************************)
C8_RunUnmodified ==
    (matched_rule = <<>> /\ pc \notin {"start", "walk", "user", "discovered", "merged",
                                       "compiled", "matched"}) =>
        /\ final # <<>> => final[1] = [binary |-> ResolveCommand(command_name)[1],
                                       args |-> command_args]
        /\ \A i \in 1..Len(Children) :
              /\ Children[i].kind = "exec"
              /\ Children[i].program = ResolveCommand(command_name)[1]
              /\ Children[i].args = command_args
        /\ Len(Children) <= 1
        /\ pc = "done" =>
              /\ Len(events) = 1
              /\ events[1].spawned
              /\ result = OkResult(CodeOf(events[1].status))
              /\ ToolExit = CodeOf(events[1].status)

\* there are rules, none matches, and the command was run with its argument and exited with 42
C8_Witness ==
    /\ pc = "done"
    /\ matched_rule = <<>>
    /\ rules # <<>>
    /\ command_args # <<>>
    /\ events = <<Exited(Child("exec", ResolveCommand(command_name)[1], command_args, <<>>), <<42>>)>>
    /\ ToolExit = 42

(***************************************************************************)
(* What the cascade is to produce, read off the files themselves.          *)
(***************************************************************************)
\* the starting directory and its ancestors, the deepest first
Chain(dir) == [i \in 1..(Len(dir) + 1) |-> SubSeq(dir, 1, Len(dir) + 1 - i)]

\* a file that ends the walk: a config with root or no_external_lookup set
EndsWalk(file) ==
    file.kind = "toml" /\ (file.config.root \/ file.config.no_external_lookup)

\* how far up the chain the walk goes
WalkLength(chain) ==
    IF \E i \in 1..Len(chain) : EndsWalk(fs[chain[i]])
    THEN CHOOSE i \in 1..Len(chain) :
            /\ EndsWalk(fs[chain[i]])
            /\ \A j \in 1..(i - 1) : ~EndsWalk(fs[chain[j]])
    ELSE Len(chain)

HasConfig(dir) == FileExists(fs[dir])

\* the directories of the cascade that hold a config, the most specific first
CascadeDirs == SelectSeq(SubSeq(Chain(cwd), 1, WalkLength(Chain(cwd))), HasConfig)

RECURSIVE RulesOfDirs(_)
RulesOfDirs(dirs) ==
    IF dirs = <<>> THEN <<>>
    ELSE RulesWithSource(fs[dirs[1]].config.rules, ConfigPath(dirs[1])) \o RulesOfDirs(Tail(dirs))

\* the user config is suppressed: a config of the cascade sets no_external_lookup,
\* or names a variable that is truthy
UserConfigSuppressed ==
    \E i \in 1..Len(CascadeDirs) :
        LET c == fs[CascadeDirs[i]].config
        IN  \/ c.no_external_lookup
            \/ /\ IsSome(c.root_config_lookup_disable_env_var)
               /\ IsEnvTruthy(env[Unwrap(c.root_config_lookup_disable_env_var)])

UserRules ==
    IF ~UserConfigSuppressed /\ IsSome(home) /\ FileExists(fs[Unwrap(home)])
    THEN RulesWithSource(fs[Unwrap(home)].config.rules, ConfigPath(Unwrap(home)))
    ELSE <<>>

(***************************************************************************)
(* C9: for every cascade, the merged rules are the rules of the cascade's  *)
(* directories concatenated from the most specific directory to the least  *)
(* specific one, each config's rules in their own order, followed by the   *)
(* user config's rules unless the user config is suppressed.               *)
(***************************************************************************)
C9_MergedOrder ==
    pc = "merged" => Unwrap(merged).rules = RulesOfDirs(CascadeDirs) \o UserRules

\* two directories of the cascade and the user config all contribute rules
C9_Witness ==
    /\ pc = "merged"
    /\ Len(CascadeDirs) >= 2
    /\ UserRules # <<>>
    /\ Len(Unwrap(merged).rules) = 2 * Len(CascadeDirs) + Len(UserRules)

(***************************************************************************)
(* C10: if any loaded config sets no_external_lookup, discover_configs     *)
(* returns that one config only and the merged rules are that config's     *)
(* rules only.                                                             *)
(***************************************************************************)
C10_OnlyThatConfig ==
    pc = "merged" =>
        \A i \in 1..Len(configs) :
            configs[i].config.no_external_lookup =>
                /\ configs = <<configs[i]>>
                /\ Unwrap(merged).rules = RulesWithSource(configs[i].config.rules, configs[i].path)

(***************************************************************************)
(* What the walk and the user-config lookup are to load.                   *)
(***************************************************************************)
\* the configs of the cascade's directories, the most specific first
WalkConfigs ==
    [i \in 1..Len(CascadeDirs) |->
        [config |-> fs[CascadeDirs[i]].config, path |-> ConfigPath(CascadeDirs[i])]]

\* the user config as the lookup loads it: nothing when the lookup is
\* suppressed or the file does not exist
UserConfigs ==
    IF ~UserConfigSuppressed /\ home # <<>> /\ fs[home[1]].kind = "toml"
    THEN <<[config |-> fs[home[1]].config, path |-> ConfigPath(home[1])]>>
    ELSE <<>>

\* the directories strictly above dir
IsProperAncestor(anc, dir) == Len(anc) < Len(dir) /\ SubSeq(dir, 1, Len(anc)) = anc

(***************************************************************************)
(* C11: when the walk has loaded a config with root set, the walk stops at *)
(* that directory: no config of an ancestor directory is loaded by the     *)
(* walk, and the user-config lookup still runs, appending the user config  *)
(* when it exists and is not suppressed.                                   *)
(***************************************************************************)
C11_RootStopsWalk ==
    skip_cascade =>
        /\ pc # "walk"
        /\ fs[current_dir].config.root
        /\ CascadeDirs # <<>>
        /\ current_dir = CascadeDirs[Len(CascadeDirs)]
        /\ SubSeq(configs, 1, Len(CascadeDirs)) = WalkConfigs
        /\ SubSeq(reads, 1, Len(CascadeDirs)) = [i \in 1..Len(CascadeDirs) |-> ConfigPath(CascadeDirs[i])]
        /\ \A j \in 1..Len(reads) :
              (\E d \in Dirs : IsProperAncestor(d, current_dir) /\ reads[j] = ConfigPath(d)) =>
                  /\ j = Len(CascadeDirs) + 1
                  /\ home # <<>>
                  /\ reads[j] = ConfigPath(home[1])
        /\ pc = "user" => configs = WalkConfigs
        /\ pc \in {"discovered", "merged"} => configs = WalkConfigs \o UserConfigs
        /\ pc = "failed" =>
              /\ ~UserConfigSuppressed
              /\ \/ home = <<>> /\ result[1].err.kind = "HomeDirectoryNotFound"
                 \/ /\ home # <<>>
                    /\ fs[home[1]].kind = "unreadable"
                    /\ result[1].err = [kind |-> "ConfigReadError", path |-> ConfigPath(home[1])]
                 \/ /\ home # <<>>
                    /\ fs[home[1]].kind = "malformed"
                    /\ result[1].err = [kind |-> "ConfigParseError", path |-> ConfigPath(home[1])]
                 \/ /\ home # <<>>
                    /\ fs[home[1]].kind = "toml"
                    /\ result[1].err.kind = "MutuallyExclusive"

\* a root config below directories that hold configs: the walk loaded none of
\* them, and the user config was appended
C11_Witness ==
    /\ skip_cascade
    /\ pc = "merged"
    /\ Len(current_dir) >= 1
    /\ \A d \in Dirs : IsProperAncestor(d, current_dir) => fs[d].kind = "toml"
    /\ home = <<OtherHome>>
    /\ Len(configs) = Len(CascadeDirs) + 1
    /\ configs[Len(configs)].path = ConfigPath(OtherHome)

(***************************************************************************)
(* The user-config lookup against the environment: configs in the working  *)
(* directory and in the root directory, each naming a variable or none,    *)
(* and every value of the variables.                                       *)
(***************************************************************************)
NO_USER == "TRAMP_NO_USER"

\* "", 0, false, False, FALSE, no, No, NO
FalsyValues ==
    { <<>>, <<"0">>,
      <<"f", "a", "l", "s", "e">>, <<"F", "a", "l", "s", "e">>, <<"F", "A", "L", "S", "E">>,
      <<"n", "o">>, <<"N", "o">>, <<"N", "O">> }

\* 1, true, yes, 00, off, n, a blank
TruthyValues ==
    { <<"1">>, <<"t", "r", "u", "e">>, <<"y", "e", "s">>, <<"0", "0">>,
      <<"o", "f", "f">>, <<"n">>, <<" ">> }

NamedVars == {None, Some(CI), Some(NO_USER)}

EnvFiles == {AbsentFile} \cup {TomlFile(Config(FALSE, FALSE, v, <<FirstRule>>)) : v \in NamedVars}

InitEnv ==
    /\ cwd = DirAt(1)
    /\ home \in {None, Some(OtherHome)}
    /\ env \in [{CI, NO_USER} -> {None} \cup {Some(v) : v \in FalsyValues \cup TruthyValues}]
    /\ fs \in [Dirs \cup {OtherHome} -> EnvFiles \cup UserFiles]
    /\ \A d \in Dirs \cup {OtherHome} :
          IF d \in {DirAt(0), DirAt(1)} THEN fs[d] \in EnvFiles
          ELSE IF home = Some(d) THEN fs[d] \in {AbsentFile, TomlFile(Config(FALSE, FALSE, None, <<SecondRule>>))}
          ELSE fs[d] = AbsentFile
    /\ WalkEntry
    /\ RewriterIdle
    /\ IdlePipeline
    /\ pc = "walk"

SpecEnv == InitEnv /\ [][NextCascade]_vars

\* some config of the cascade names a variable that is set to a truthy value
NamesTruthyVariable ==
    \E d \in {DirAt(0), DirAt(1)} :
        /\ fs[d].kind = "toml"
        /\ fs[d].config.root_config_lookup_disable_env_var # <<>>
        /\ env[fs[d].config.root_config_lookup_disable_env_var[1]] # <<>>
        /\ env[fs[d].config.root_config_lookup_disable_env_var[1]][1] \in TruthyValues

UserConfigPath == ConfigPath(OtherHome)

\* the lookup went to the user config: it asked for the home directory and, when
\* the file exists, read it
UserConfigRead == \E j \in 1..Len(reads) : reads[j] = UserConfigPath

(***************************************************************************)
(* C12: the user-config lookup is skipped exactly when some already-loaded *)
(* config names an environment variable whose value is truthy: set,        *)
(* non-empty and not 0, false or no in any letter case.  An unset variable *)
(* or a config that names no variable never suppresses the user config.    *)
(***************************************************************************)
C12_SkippedIffTruthy ==
    pc \in {"discovered", "merged", "failed"} =>
        IF NamesTruthyVariable
        THEN /\ pc # "failed"
             /\ ~UserConfigRead
             /\ \A i \in 1..Len(configs) : configs[i].path # UserConfigPath
        ELSE /\ home = <<>> => (pc = "failed" /\ result[1].err.kind = "HomeDirectoryNotFound")
             /\ home # <<>> => pc # "failed"
             /\ (home # <<>> /\ fs[OtherHome].kind = "toml") =>
                   /\ reads[Len(reads)] = UserConfigPath
                   /\ configs[Len(configs)] = [config |-> fs[OtherHome].config, path |-> UserConfigPath]

\* the working directory's config names a variable set to FALSE and the root's
\* config names one that is not set: the user config is loaded
C12_Witness ==
    /\ pc = "merged"
    /\ fs[DirAt(1)].kind = "toml"
    /\ fs[DirAt(1)].config.root_config_lookup_disable_env_var = <<CI>>
    /\ env[CI] = << <<"F", "A", "L", "S", "E">> >>
    /\ fs[DirAt(0)].kind = "toml"
    /\ fs[DirAt(0)].config.root_config_lookup_disable_env_var = <<NO_USER>>
    /\ env[NO_USER] = <<>>
    /\ Len(configs) = 3
    /\ configs[3].path = UserConfigPath

(***************************************************************************)
(* What makes a configuration unusable, read off the files.                *)
(***************************************************************************)
\* the patterns of the scenarios that are not regular expressions: ( and *e
InvalidPatterns == { <<"(">>, <<"*", "e">> }

RewriteFieldsSet(rule) ==
    (IF rule.arg_rewrite # <<>> THEN 1 ELSE 0)
        + (IF rule.command_rewrite # <<>> THEN 1 ELSE 0)
        + (IF rule.alternate_command # <<>> THEN 1 ELSE 0)

FaultyRule(rule) ==
    \/ RewriteFieldsSet(rule) >= 2
    \/ rule.binary_pattern # <<>> /\ rule.binary_pattern[1] \in InvalidPatterns
    \/ rule.cwd_pattern # <<>> /\ rule.cwd_pattern[1] \in InvalidPatterns

FaultyFile(file) ==
    \/ file.kind \in {"unreadable", "malformed"}
    \/ /\ file.kind = "toml"
       /\ \E i \in 1..Len(file.config.rules) : FaultyRule(file.config.rules[i])

\* the config of the working directory or the user config is unusable
ConfigFaulty == FaultyFile(fs[cwd]) \/ FaultyFile(fs[OtherHome])

(***************************************************************************)
(* C13: a configuration error (a malformed or unreadable file, a rule with *)
(* mutually exclusive fields, a pattern that is not a regular expression)  *)
(* aborts the invocation before anything is executed: no hook and no       *)
(* command is run, no rule is matched or applied, and the tool exits with  *)
(* failure.                                                                *)
(***************************************************************************)
C13_ConfigErrorAborts ==
    ConfigFaulty =>
        /\ Started = <<>>
        /\ matched_rule = <<>>
        /\ final = <<>>
        /\ pc \in {"start", "walk", "user", "discovered", "merged", "failed"}
        /\ pc = "failed" =>
              /\ ToolExit = ExitFailure
              /\ result[1].err.kind \in {"CommandNotFound", "ConfigReadError", "ConfigParseError",
                                         "MutuallyExclusive", "InvalidRegex"}
              /\ result[1].err.kind = "CommandNotFound" => ResolveCommand(command_name) = <<>>

\* the first rule matches the command and has hooks, the second one sets two
\* rewrite fields: the invocation failed and nothing was run
C13_Witness ==
    /\ pc = "failed"
    /\ command_name = <<"e">>
    /\ fs[cwd].kind = "toml"
    /\ fs[cwd].config.rules = <<HookedRule, ExclusiveRule>>
    /\ result[1].err.kind = "MutuallyExclusive"
    /\ events = <<>>

(***************************************************************************)
(* Validation: every list of up to MaxRules rules over the combinations of *)
(* the three rewrite fields, in the config of the working directory.       *)
(***************************************************************************)
RewriteCombos ==
    {[DefaultRule EXCEPT !.arg_rewrite = a, !.command_rewrite = c, !.alternate_command = l] :
        a \in {None, Some(<<"s", "/", "a", "/", "b", "/">>)},
        c \in {None, Some(<<"s", "/", "a", "/", "b", "/">>)},
        l \in {None, Some(<<"c">>)}}

InitValidate ==
    /\ command_name \in Commands
    /\ command_args = <<>>
    /\ cwd \in Dirs
    /\ \E rs \in SeqsUpTo(RewriteCombos, MaxRules) :
          OnlyCwdConfig(TomlFile(Config(FALSE, FALSE, None, rs)), AbsentFile)
    /\ WalkEntry
    /\ RewriterIdle
    /\ CommandEntry

SpecValidate == InitValidate /\ [][NextMatch]_vars

\* the two fields a MutuallyExclusive error is to name for a rule
ExpectedOptions(rule) ==
    IF rule.arg_rewrite # <<>> /\ rule.command_rewrite # <<>>
    THEN <<"arg_rewrite", "command_rewrite">>
    ELSE IF rule.arg_rewrite # <<>>
    THEN <<"arg_rewrite", "alternate_command">>
    ELSE <<"command_rewrite", "alternate_command">>

\* the rules of the list that set two or more rewrite fields
Offenders == {i \in 1..Len(ListedRules) : RewriteFieldsSet(ListedRules[i]) >= 2}

FirstOffender == CHOOSE i \in Offenders : \A j \in Offenders : i <= j

(***************************************************************************)
(* C14: a rule that sets two or more of arg_rewrite, command_rewrite and   *)
(* alternate_command fails validation when the config is loaded, before    *)
(* any rule is compiled or matched, with a MutuallyExclusive error naming  *)
(* the first two set fields in that order; a config whose rules each set   *)
(* at most one of them passes validation.                                  *)
(***************************************************************************)
C14_MutuallyExclusive ==
    IF Offenders # {}
    THEN /\ pc \in {"start", "walk", "failed"}
         /\ configs = <<>> /\ merged = <<>> /\ rules = <<>> /\ matched_rule = <<>>
         /\ (pc = "failed" /\ binary_path # <<>>) =>
               result[1].err = [kind |-> "MutuallyExclusive",
                                option1 |-> ExpectedOptions(ListedRules[FirstOffender])[1],
                                option2 |-> ExpectedOptions(ListedRules[FirstOffender])[2]]
    ELSE /\ pc = "failed" => result[1].err.kind = "CommandNotFound"
         /\ pc \notin {"start", "walk", "failed"} =>
               configs = <<[config |-> fs[cwd].config, path |-> ConfigPath(cwd)]>>

\* a rule with one rewrite field, then a rule with all three: the error names
\* arg_rewrite and command_rewrite
C14_Witness ==
    /\ pc = "failed"
    /\ Len(ListedRules) = 2
    /\ RewriteFieldsSet(ListedRules[1]) = 1
    /\ RewriteFieldsSet(ListedRules[2]) = 3
    /\ result[1].err = [kind |-> "MutuallyExclusive",
                        option1 |-> "arg_rewrite", option2 |-> "command_rewrite"]

(***************************************************************************)
(* What the rewrite strategies are to produce for the rules and argument   *)
(* vectors of the scenarios, written out by hand.                          *)
(***************************************************************************)
\* a rule matched and apply_rule has been called
RuleApplied ==
    /\ matched_rule # <<>>
    /\ pc \notin {"start", "walk", "user", "discovered", "merged", "compiled", "matched"}

\* the command the hand-written tables are for: e, found as /b/e
OriginalBinary == <<"/", "b", "/", "e">>
ResolvedCat == <<"/", "u", "/", "c">>

\* the children that are the command, not a hook
ExecChildren == SelectSeq(Children, LAMBDA c : c.kind = "exec")

\* s/a/b c/, s/a/b/g and s/hello/goodbye/ on the arguments joined by a blank,
\* split again at the blanks
ExpectedArgs(rewrite, args) ==
    CASE rewrite = <<"s", "/", "a", "/", "b", " ", "c", "/">> ->
            (CASE args = << <<"a">> >> -> << <<"b">>, <<"c">> >>
               [] args = << <<"a">>, <<"b">> >> -> << <<"b">>, <<"c">>, <<"b">> >>
               [] args = << <<"a", "a">>, <<"b">> >> -> << <<"b">>, <<"c", "a">>, <<"b">> >>
               [] OTHER -> args)
      [] rewrite = <<"s", "/", "a", "/", "b", "/", "g">> ->
            (CASE args = << <<"a">> >> -> << <<"b">> >>
               [] args = << <<"a">>, <<"b">> >> -> << <<"b">>, <<"b">> >>
               [] args = << <<"a", "a">>, <<"b">> >> -> << <<"b", "b">>, <<"b">> >>
               [] OTHER -> args)
      [] rewrite = <<"s", "/">> \o Hello \o <<"/">> \o Goodbye \o <<"/">> ->
            (CASE args = <<Hello, World>> -> <<Goodbye, World>>
               [] OTHER -> args)

ValidArgRewrites ==
    { <<"s", "/", "a", "/", "b", " ", "c", "/">>,
      <<"s", "/", "a", "/", "b", "/", "g">>,
      <<"s", "/">> \o Hello \o <<"/">> \o Goodbye \o <<"/">> }

\* the command rewrites on "/b/e" and the arguments joined by blanks: the binary
\* name and the arguments that are left, before the binary is resolved
ExpectedCommand(rewrite, args) ==
    CASE rewrite = <<"s", "#", "/", "b", "/", "e", "#", "c", "#">> ->
            [binary |-> <<"c">>, args |-> args]
      [] rewrite = <<"s", "#", "/", "b", "/", "e", "#", "c", " ", "a", "#">> ->
            [binary |-> <<"c">>, args |-> << <<"a">> >> \o args]
      [] rewrite = <<"s", "/", "\\", "/", "b", "\\", "/", "e", "/", "x", "/">> ->
            [binary |-> <<"x">>, args |-> args]
      [] rewrite = <<"s", "/", ".", "*", "/", "/">> ->
            [binary |-> OriginalBinary, args |-> <<>>]
      [] rewrite = <<"s", "/", "a", "/", "b", "/">> ->
            [binary |-> OriginalBinary,
             args |-> CASE args = << <<"a">> >> -> << <<"b">> >>
                        [] args = << <<"a">>, <<"b">> >> -> << <<"b">>, <<"b">> >>
                        [] args = << <<"a", "a">>, <<"b">> >> -> << <<"b", "a">>, <<"b">> >>
                        [] OTHER -> args]

\* where the names of the scenarios are found: c on the search path, /b/e as it
\* is, x nowhere
ExpectedPath(name) ==
    CASE name = <<"c">> -> <<ResolvedCat>>
      [] name = OriginalBinary -> <<OriginalBinary>>
      [] name = <<"x">> -> <<>>

(***************************************************************************)
(* C15: for a matched rule that passed validation apply_rule applies       *)
(* exactly one strategy, the alternate command, else the argument rewrite, *)
(* else the whole-command rewrite, else none; with no rewrite field set    *)
(* the final binary and arguments are the original ones.                   *)
(***************************************************************************)
C15_OneStrategy ==
    RuleApplied =>
        /\ RewriteFieldsSet(TheRule) <= 1
        /\ RewriteFieldsSet(TheRule) = 0 =>
              final = <<[binary |-> binary_path[1], args |-> command_args]>>
        /\ (TheRule.alternate_command # <<>> /\ final # <<>>) =>
              /\ final[1].args = command_args
              /\ final[1].binary # binary_path[1]
        /\ (TheRule.arg_rewrite # <<>> /\ final # <<>>) =>
              /\ final[1].binary = binary_path[1]
              /\ final[1].args = ExpectedArgs(TheRule.arg_rewrite[1], command_args)
        /\ (TheRule.command_rewrite # <<>> /\ final # <<>>) =>
              /\ final[1].binary = ExpectedPath(ExpectedCommand(TheRule.command_rewrite[1], command_args).binary)[1]
              /\ final[1].args = ExpectedCommand(TheRule.command_rewrite[1], command_args).args
        /\ final = <<>> =>
              /\ pc = "failed"
              /\ result[1].err.kind = "AlternateCommandNotFound" => TheRule.alternate_command # <<>>
              /\ result[1].err.kind = "RewrittenCommandNotFound" => TheRule.command_rewrite # <<>>
              /\ result[1].err.kind \in {"InvalidRegex", "panic"} =>
                    (TheRule.arg_rewrite # <<>> \/ TheRule.command_rewrite # <<>>)
              /\ result[1].err.kind \in {"AlternateCommandNotFound", "RewrittenCommandNotFound",
                                         "InvalidRegex", "panic"}

\* a matched rule without a rewrite field: the command was run as it was given
C15_Witness ==
    /\ RuleApplied
    /\ RewriteFieldsSet(TheRule) = 0
    /\ command_args = << <<"a">>, <<"b">> >>
    /\ Len(ExecChildren) = 1
    /\ ExecChildren[1].program = OriginalBinary
    /\ ExecChildren[1].args = command_args
    /\ pc = "done"

(***************************************************************************)
(* C16: with an alternate command the executed binary is the alternate     *)
(* command as resolved on the search path and the executed arguments are   *)
(* the original arguments, unchanged; when the alternate command cannot be *)
(* resolved the invocation fails and nothing is executed.                  *)
(***************************************************************************)
C16_AlternateCommand ==
    (RuleApplied /\ TheRule.alternate_command # <<>>) =>
        IF ExpectedPath(TheRule.alternate_command[1]) # <<>>
        THEN /\ final = <<[binary |-> ExpectedPath(TheRule.alternate_command[1])[1],
                           args |-> command_args]>>
             /\ \A i \in 1..Len(ExecChildren) :
                   /\ ExecChildren[i].program = ExpectedPath(TheRule.alternate_command[1])[1]
                   /\ ExecChildren[i].args = command_args
        ELSE /\ pc = "failed"
             /\ result[1].err = [kind |-> "AlternateCommandNotFound",
                                 command |-> TheRule.alternate_command[1]]
             /\ ToolExit = ExitFailure
             /\ final = <<>>
             /\ Children = <<>>

\* e a b was run as /u/c a b
C16_Witness ==
    /\ RuleApplied
    /\ TheRule.alternate_command = << <<"c">> >>
    /\ binary_path = <<OriginalBinary>>
    /\ command_args = << <<"a">>, <<"b">> >>
    /\ pc = "done"
    /\ Len(ExecChildren) = 1
    /\ ExecChildren[1].program = ResolvedCat
    /\ ExecChildren[1].args = << <<"a">>, <<"b">> >>

(***************************************************************************)
(* C17: with an argument rewrite the new arguments are the substitution    *)
(* applied to the original arguments joined by single blanks, split at     *)
(* whitespace, and the binary is unchanged: echo hello world with          *)
(* s/hello/goodbye/ runs echo with goodbye and world.                      *)
(***************************************************************************)
C17_ArgRewrite ==
    (RuleApplied /\ TheRule.arg_rewrite # <<>> /\ TheRule.arg_rewrite[1] \in ValidArgRewrites) =>
        /\ final = <<[binary |-> binary_path[1],
                      args |-> ExpectedArgs(TheRule.arg_rewrite[1], command_args)]>>
        /\ \A i \in 1..Len(ExecChildren) :
              /\ ExecChildren[i].program = binary_path[1]
              /\ ExecChildren[i].args = ExpectedArgs(TheRule.arg_rewrite[1], command_args)

\* e hello world with s/hello/goodbye/ was run as /b/e goodbye world
C17_Witness ==
    /\ RuleApplied
    /\ TheRule.arg_rewrite = << <<"s", "/">> \o Hello \o <<"/">> \o Goodbye \o <<"/">> >>
    /\ command_args = <<Hello, World>>
    /\ pc = "done"
    /\ Len(ExecChildren) = 1
    /\ ExecChildren[1].program = OriginalBinary
    /\ ExecChildren[1].args = <<Goodbye, World>>

(***************************************************************************)
(* C18: with a whole-command rewrite the binary and the arguments are      *)
(* joined by blanks, the substitution is applied and the result is split   *)
(* at whitespace; the first token is the new binary, which is resolved on  *)
(* the search path, the other tokens are the new arguments; when the new   *)
(* binary cannot be resolved the invocation fails.                         *)
(***************************************************************************)
C18_CommandRewrite ==
    (RuleApplied /\ TheRule.command_rewrite # <<>> /\ TheRule.command_rewrite[1] \in CommandRewrites) =>
        IF ExpectedPath(ExpectedCommand(TheRule.command_rewrite[1], command_args).binary) # <<>>
        THEN /\ final =
                  <<[binary |-> ExpectedPath(ExpectedCommand(TheRule.command_rewrite[1], command_args).binary)[1],
                     args |-> ExpectedCommand(TheRule.command_rewrite[1], command_args).args]>>
             /\ \A i \in 1..Len(ExecChildren) :
                   /\ ExecChildren[i].program = final[1].binary
                   /\ ExecChildren[i].args = final[1].args
        ELSE /\ pc = "failed"
             /\ result[1].err =
                   [kind |-> "RewrittenCommandNotFound",
                    command |-> ExpectedCommand(TheRule.command_rewrite[1], command_args).binary]
             /\ ToolExit = ExitFailure
             /\ final = <<>>
             /\ Children = <<>>

\* e aa b with s#/b/e#c a# was run as /u/c a aa b
C18_Witness ==
    /\ RuleApplied
    /\ TheRule.command_rewrite = << <<"s", "#", "/", "b", "/", "e", "#", "c", " ", "a", "#">> >>
    /\ command_args = << <<"a", "a">>, <<"b">> >>
    /\ pc = "done"
    /\ Len(ExecChildren) = 1
    /\ ExecChildren[1].program = ResolvedCat
    /\ ExecChildren[1].args = << <<"a">>, <<"a", "a">>, <<"b">> >>

(***************************************************************************)
(* What a hook is to find in its environment.                              *)
(***************************************************************************)
HookChildren == SelectSeq(Children, LAMBDA c : IsHook(c.kind))

\* the keys every hook gets, for n original arguments
OriginalKeys(n) ==
    { <<"TRAMP_ORIGINAL_BINARY">>, <<"TRAMP_ORIGINAL_ARGS">>, <<"TRAMP_ORIGINAL_ARGC">>,
      <<"TRAMP_CWD">>, <<"TRAMP_HOOK_TYPE">> }
        \cup {<<"TRAMP_ORIGINAL_ARG_", i>> : i \in 0..(n - 1)}

\* the keys that depend on the phase
PhaseKeys(kind) ==
    CASE kind = "pre" -> {}
      [] kind = "intercept" -> { <<"TRAMP_EXECUTED_BINARY">>, <<"TRAMP_EXECUTED_ARGS">> }
      [] kind = "post" -> { <<"TRAMP_EXECUTED_BINARY">>, <<"TRAMP_EXECUTED_ARGS">>,
                            <<"TRAMP_EXIT_CODE">> }

\* a count of arguments in decimal
Decimal(n) ==
    CASE n = 0 -> <<"0">> [] n = 1 -> <<"1">> [] n = 2 -> <<"2">> [] n = 3 -> <<"3">>

\* up to two arguments joined by a blank
Joined(args) ==
    CASE Len(args) = 0 -> <<>>
      [] Len(args) = 1 -> args[1]
      [] Len(args) = 2 -> args[1] \o <<" ">> \o args[2]

\* the working directories of the model as paths
CwdPath ==
    CASE cwd = <<>> -> <<"/">>
      [] cwd = <<"p">> -> <<"/", "p">>
      [] cwd = <<"p", "q">> -> <<"/", "p", "/", "q">>
      [] cwd = <<"p", "q", "r">> -> <<"/", "p", "/", "q", "/", "r">>

\* the commands of the model as found on the search path
CommandPath ==
    CASE command_name = <<"e">> -> OriginalBinary
      [] command_name = <<"c">> -> ResolvedCat

PhaseName(kind) ==
    CASE kind = "pre" -> <<"p", "r", "e">>
      [] kind = "intercept" -> <<"i", "n", "t", "e", "r", "c", "e", "p", "t">>
      [] kind = "post" -> <<"p", "o", "s", "t">>

C20_OriginalVariables ==
    \A i \in 1..Len(HookChildren) :
        /\ DOMAIN HookChildren[i].env =
              OriginalKeys(Len(command_args)) \cup PhaseKeys(HookChildren[i].kind)
        /\ HookChildren[i].env[<<"TRAMP_ORIGINAL_ARGC">>] = Decimal(Len(command_args))
        /\ \A k \in 0..(Len(command_args) - 1) :
              HookChildren[i].env[<<"TRAMP_ORIGINAL_ARG_", k>>] = command_args[k + 1]
        /\ HookChildren[i].env[<<"TRAMP_ORIGINAL_ARGS">>] = Joined(command_args)
        /\ HookChildren[i].env[<<"TRAMP_ORIGINAL_BINARY">>] = CommandPath
        /\ HookChildren[i].env[<<"TRAMP_CWD">>] = CwdPath
        /\ HookChildren[i].env[<<"TRAMP_HOOK_TYPE">>] = PhaseName(HookChildren[i].kind)

\* e aa b was run as /u/c a aa b: the post-hook is told of /b/e and of two arguments
C20_Witness ==
    /\ Started = <<"pre", "exec", "post">>
    /\ command_args = << <<"a", "a">>, <<"b">> >>
    /\ events[2].child.program = ResolvedCat
    /\ events[2].child.args = << <<"a">>, <<"a", "a">>, <<"b">> >>
    /\ Children[3].env[<<"TRAMP_ORIGINAL_BINARY">>] = OriginalBinary
    /\ Children[3].env[<<"TRAMP_ORIGINAL_ARGC">>] = <<"2">>
    /\ Children[3].env[<<"TRAMP_ORIGINAL_ARG_", 1>>] = <<"b">>
    /\ Children[3].env[<<"TRAMP_ORIGINAL_ARGS">>] = <<"a", "a", " ", "b">>
    /\ cwd = <<"p", "q">>
    /\ Children[3].env[<<"TRAMP_CWD">>] = <<"/", "p", "/", "q">>


(***************************************************************************)
(* The rewriter on its own: Substitution::parse on every short rewrite     *)
(* string and on the strings "s<d>pattern<d>replacement<d>flags", then     *)
(* Substitution::apply of what was parsed on every short text.             *)
(***************************************************************************)
MaxInput == 4
MaxText == 3

RewriteChars == {"s", "/", "\\", "a", "(", TwoByteChar}
Delimiters == {"/", "#", "\\", "g", TwoByteChar}
Patterns ==
    { <<"a">>, <<"b">>, <<"X">>, <<"a", "a">>, <<"a", "*">>, <<"^", "a">>, <<"a", "$">>,
      <<".">>, <<"(">>, <<"*">> }
Replacements == { <<>>, <<"b">>, <<"Y">>, <<"a", "b">> }
Flags == { <<>>, <<"g">>, <<"i">>, <<"i", "g">> }

\* the rewrite strings of the rewriter's own tests
TestRewrites ==
    { <<"s", "/", "f", "o", "o", "/", "b", "a", "r", "/">>,
      <<"s", "/", "f", "o", "o", "/", "b", "a", "r", "/", "g">>,
      <<"s", "#", "f", "o", "o", "#", "b", "a", "r", "#">>,
      <<"s", "/", "f", "o", "o", "\\", "/", "b", "a", "r", "/", "b", "a", "z", "/">>,
      <<"f", "o", "o", "/", "b", "a", "r", "/">> }
TestTexts ==
    { <<"X">>, <<"f", "o", "o", "/", "b", "a", "r">>,
      <<"f", "o", "o", " ", "f", "o", "o", " ", "f", "o", "o">> }

RewriteStrings ==
    SeqsUpTo(RewriteChars, 1)
        \cup { <<"s">> \o w : w \in SeqsUpTo(RewriteChars, MaxInput) }
        \cup { <<"s", d>> \o p \o <<d>> \o r \o <<d>> \o f :
                   d \in Delimiters, p \in Patterns, r \in Replacements, f \in Flags }
        \cup { <<"s", d>> \o p \o <<d>> \o r : d \in Delimiters, p \in Patterns, r \in Replacements }
        \cup TestRewrites
Texts == SeqsUpTo({"a", "b"}, MaxText) \cup TestTexts

InitRewriter ==
    /\ sub_input \in RewriteStrings
    /\ sub_parts = None
    /\ sub_result = None
    /\ apply_input = <<>>
    /\ apply_output = None
    /\ cwd = DirAt(0)
    /\ home = None
    /\ env = [n \in EnvNames |-> None]
    /\ fs = [d \in Dirs \cup {OtherHome} |-> AbsentFile]
    /\ WalkEntry
    /\ IdlePipeline
    /\ pc = "rewriter"

\* Substitution::parse(sub_input); the parts are those of its call of
\* split_by_delimiter, when it gets that far
Parse ==
    /\ pc = "rewriter"
    /\ sub_result = None
    /\ sub_result' = Some(SubstitutionParse(sub_input))
    /\ sub_parts' = IF Len(sub_input) >= 2 /\ sub_input[1] = "s" /\ ByteLen(sub_input[2]) = 1
                    THEN Some(SplitByDelimiter(SubSeq(sub_input, 3, Len(sub_input)), sub_input[2]))
                    ELSE None
    /\ UNCHANGED <<fs, home, env, cwd, command_name, command_args, sub_input, apply_input,
                   apply_output, cascadeVars, pipeVars, result, pc>>

\* sub.apply(input) on the substitution that was parsed
Apply ==
    /\ pc = "rewriter"
    /\ IsSome(sub_result)
    /\ Unwrap(sub_result).kind = "ok"
    /\ apply_output = None
    /\ \E input \in Texts :
          /\ apply_input' = input
          /\ apply_output' = Some(SubstitutionApply(Unwrap(sub_result).sub, input))
    /\ UNCHANGED <<fs, home, env, cwd, command_name, command_args, sub_input, sub_parts,
                   sub_result, cascadeVars, pipeVars, result, pc>>

NextRewriter == Parse \/ Apply

SpecRewriter == InitRewriter /\ [][NextRewriter]_vars

(***************************************************************************)
(* C21: when the command was run (so the matched rule, if any, has no      *)
(* intercept hook), the invocation ends successfully and the tool's exit   *)
(* code is the command's exit code as it is, for every code 0..255, and 1  *)
(* when the command has no exit code because a signal ended it.            *)
(***************************************************************************)
C21_ExitCodeVerbatim ==
    /\ \A c \in 0..255 : AsU8(CommandExitCode(<<c>>)) = c
    /\ AsU8(CommandExitCode(<<>>)) = 1
    /\ \A i \in 1..Len(events) :
          (events[i].child.kind = "exec" /\ events[i].spawned /\ pc \in {"done", "failed"}) =>
              /\ \A j \in 1..Len(events) : events[j].child.kind # "intercept"
              /\ pc = "done"
              /\ Unwrap(result).ok
              /\ \/ events[i].status = <<>> /\ ToolExit = 1
                 \/ events[i].status # <<>> /\ ToolExit = events[i].status[1]

\* the command exited with 255 and so did the tool
C21_Witness ==
    /\ pc = "done"
    /\ \E i \in 1..Len(events) :
          /\ events[i].child.kind = "exec"
          /\ events[i].spawned
          /\ events[i].status = <<255>>
    /\ ToolExit = 255

\* the command was ended by a signal and the tool exited with 1
C21_WitnessSignal ==
    /\ pc = "done"
    /\ \E i \in 1..Len(events) :
          /\ events[i].child.kind = "exec"
          /\ events[i].spawned
          /\ events[i].status = <<>>
    /\ ToolExit = 1


(***************************************************************************)
(* C22: whenever the post-hook has run and exited with a non-zero code     *)
(* (or was ended by a signal), or could not be started, a warning has been *)
(* logged, and nothing else follows from it: the invocation ends           *)
(* successfully with the command's exit code.                              *)
(***************************************************************************)
C22_PostHookWarning ==
    \A i \in 1..Len(events) :
        (/\ events[i].child.kind = "post"
         /\ ~events[i].spawned \/ events[i].status # <<0>>) =>
            /\ Len(warnings) = 1
            /\ warnings[1].hook_path = events[i].child.program
            /\ pc = "done"
            /\ Unwrap(result).ok
            /\ ToolExit = CodeOf(events[i - 1].status)


\* the rewrite string s<d>pattern<d>replacement<d>flags
Composed(d, p, r, f) == <<"s", d>> \o p \o <<d>> \o r \o <<d>> \o f

\* the pattern occurs in the text at position i, character by character
OccursAt(p, text, i) == i + Len(p) - 1 <= Len(text) /\ SubSeq(text, i, i + Len(p) - 1) = p

RECURSIVE ReplaceLiteralFrom(_, _, _, _, _)
\* the text from position i on, with the leftmost occurrences of the literal
\* pattern that do not overlap replaced: all of them, or the first one
ReplaceLiteralFrom(text, i, p, r, all) ==
    IF i > Len(text) THEN <<>>
    ELSE IF OccursAt(p, text, i)
         THEN r \o (IF all THEN ReplaceLiteralFrom(text, i + Len(p), p, r, all)
                    ELSE SubSeq(text, i + Len(p), Len(text)))
    ELSE <<text[i]>> \o ReplaceLiteralFrom(text, i + 1, p, r, all)

RECURSIVE EachReplaced(_, _)
\* every character of the text replaced by r
EachReplaced(text, r) == IF text = <<>> THEN <<>> ELSE r \o EachReplaced(Tail(text), r)

RECURSIVE RunsReplaced(_, _, _)
\* every run of "a", the empty ones between other characters included, replaced by r
RunsReplaced(text, i, r) ==
    IF i > Len(text) THEN r
    ELSE IF text[i] = "a" THEN RunsReplaced(text, i + 1, r)
    ELSE r \o <<text[i]>> \o RunsReplaced(text, i + 1, r)

RECURSIVE AfterRun(_, _)
\* the text after its leading run of "a"
AfterRun(text, i) == IF i <= Len(text) /\ text[i] = "a" THEN AfterRun(text, i + 1) ELSE SubSeq(text, i, Len(text))

\* what the substitution of pattern p of Patterns by r does to the text, read off
\* the meaning of each pattern
ExpectedApply(p, r, all, text) ==
    CASE p \in {<<"a">>, <<"b">>, <<"X">>, <<"a", "a">>} -> ReplaceLiteralFrom(text, 1, p, r, all)
      [] p = <<".">> ->
            IF text = <<>> THEN text
            ELSE IF all THEN EachReplaced(text, r) ELSE r \o Tail(text)
      [] p = <<"^", "a">> ->
            IF text # <<>> /\ text[1] = "a" THEN r \o Tail(text) ELSE text
      [] p = <<"a", "$">> ->
            IF text # <<>> /\ text[Len(text)] = "a" THEN SubSeq(text, 1, Len(text) - 1) \o r ELSE text
      [] p = <<"a", "*">> ->
            IF all THEN RunsReplaced(text, 1, r) ELSE r \o AfterRun(text, 1)

\* the pattern has no match in the text: no part of the text, not even an empty
\* one, matches it
NoMatchIn(pattern, text) ==
    \A i \in 1..(Len(text) + 1) : \A j \in (i - 1)..Len(text) :
        MatchHere(<<"^">> \o pattern \o <<"$">>, 1, SubSeq(text, i, j), 1) = 0

Foo == <<"f", "o", "o">>
Bar == <<"b", "a", "r">>

(***************************************************************************)
(* C23: applying a parsed substitution replaces every match of the pattern *)
(* that does not overlap an earlier one when the flags contain "g", and    *)
(* the first match only otherwise; a text without a match comes back       *)
(* unchanged; s/X/Y/ applied to "X" gives "Y".                             *)
(***************************************************************************)
C23_ApplyReplaces ==
    IsSome(apply_output) =>
        /\ NoMatchIn(Unwrap(sub_result).sub.pattern, apply_input) =>
              Unwrap(apply_output) = apply_input
        /\ \A d \in Delimiters \ {"g"}, p \in Patterns, r \in Replacements, f \in Flags :
              sub_input = Composed(d, p, r, f) =>
                  Unwrap(apply_output) =
                      ExpectedApply(p, r, \E i \in 1..Len(f) : f[i] = "g", apply_input)
        /\ (sub_input = Composed("/", <<"X">>, <<"Y">>, <<>>) /\ apply_input = <<"X">>) =>
              Unwrap(apply_output) = <<"Y">>
        /\ (sub_input = Composed("/", Foo, Bar, <<"g">>)
              /\ apply_input = Foo \o <<" ">> \o Foo \o <<" ">> \o Foo) =>
              Unwrap(apply_output) = Bar \o <<" ">> \o Bar \o <<" ">> \o Bar
        /\ (sub_input = Composed("/", Foo, Bar, <<>>)
              /\ apply_input = Foo \o <<" ">> \o Foo \o <<" ">> \o Foo) =>
              Unwrap(apply_output) = Bar \o <<" ">> \o Foo \o <<" ">> \o Foo

\* s/a/b/ was applied to "aba", which has two matches, and gave "bba"
C23_Witness ==
    /\ sub_input = Composed("/", <<"a">>, <<"b">>, <<>>)
    /\ apply_input = <<"a", "b", "a">>
    /\ apply_output = Some(<<"b", "b", "a">>)

\* s/aa/Y/g was applied to "aaa", where the matches would overlap, and gave "Ya"
C23_WitnessOverlap ==
    /\ sub_input = Composed("/", <<"a", "a">>, <<"Y">>, <<"g">>)
    /\ apply_input = <<"a", "a", "a">>
    /\ apply_output = Some(<<"Y", "a">>)


RECURSIVE IsEscaped(_, _, _)
\* the character at position i of the text is a delimiter that a backslash
\* right before it escapes; a backslash escapes only when it is not escaped itself
IsEscaped(text, d, i) ==
    /\ i > 1
    /\ text[i] = d
    /\ text[i - 1] = "\\"
    /\ ~IsEscaped(text, d, i - 1)

\* the backslash at position i is immediately followed by the delimiter and escapes it
Escapes(text, d, i) ==
    /\ text[i] = "\\"
    /\ i < Len(text)
    /\ text[i + 1] = d
    /\ ~IsEscaped(text, d, i)

\* a segment ends at position i: a delimiter that is neither escaped nor a backslash
IsBoundary(text, d, i) == text[i] = d /\ text[i] # "\\" /\ ~IsEscaped(text, d, i)

RECURSIVE SegmentText(_, _, _, _)
\* the characters at positions lo..hi, without the backslashes that escape a delimiter
SegmentText(text, d, lo, hi) ==
    IF lo > hi THEN <<>>
    ELSE (IF Escapes(text, d, lo) THEN <<>> ELSE <<text[lo]>>) \o SegmentText(text, d, lo + 1, hi)

RECURSIVE SegmentsFrom(_, _, _, _)
\* the segments of the text from position lo on, k being the position looked at
SegmentsFrom(text, d, lo, k) ==
    IF k > Len(text) THEN <<SegmentText(text, d, lo, Len(text))>>
    ELSE IF IsBoundary(text, d, k)
         THEN <<SegmentText(text, d, lo, k - 1)>> \o SegmentsFrom(text, d, k + 1, k + 1)
    ELSE SegmentsFrom(text, d, lo, k + 1)

\* the text after the delimiter of the rewrite string
AfterDelimiter == SubSeq(sub_input, 3, Len(sub_input))

(***************************************************************************)
(* C24: in the segments the rewrite string is split into, a backslash      *)
(* immediately followed by the delimiter is dropped and the delimiter      *)
(* after it is a character of the current segment, not a boundary; every   *)
(* other backslash is kept as it is; so s/foo\/bar/baz/ has the pattern    *)
(* foo/bar and the replacement baz.                                        *)
(***************************************************************************)
C24_EscapedDelimiter ==
    /\ IsSome(sub_parts) =>
          Unwrap(sub_parts) = SegmentsFrom(AfterDelimiter, sub_input[2], 1, 1)
    /\ (IsSome(sub_result) /\ sub_input = <<"s", "/">> \o Foo \o <<"\\", "/">> \o Bar
                                              \o <<"/", "b", "a", "z", "/">>) =>
          /\ Unwrap(sub_result).kind = "ok"
          /\ Unwrap(sub_result).sub.pattern = Foo \o <<"/">> \o Bar
          /\ Unwrap(sub_result).sub.replacement = <<"b", "a", "z">>

\* s/foo\/bar/baz/ was split into foo/bar, baz and the empty flags
C24_Witness ==
    /\ sub_input = <<"s", "/">> \o Foo \o <<"\\", "/">> \o Bar \o <<"/", "b", "a", "z", "/">>
    /\ sub_parts = Some(<<Foo \o <<"/">> \o Bar, <<"b", "a", "z">>, <<>>>>)

\* s/\a/ was split into \a and the empty string: the backslash before "a" is kept
C24_WitnessKept ==
    /\ sub_input = <<"s", "/", "\\", "a", "/">>
    /\ sub_parts = Some(<< <<"\\", "a">>, <<>> >>)


\* the patterns of Patterns that Regex::new accepts
ValidPatterns == Patterns \ {<<"(">>, <<"*">>}

(***************************************************************************)
(* C25: any character may be the delimiter: for every character d and      *)
(* every pattern P and replacement R that hold neither d nor a backslash,  *)
(* parsing "s" d P d R d succeeds with the pattern P, the replacement R    *)
(* and global = false.                                                     *)
(***************************************************************************)
C25_AnyDelimiter ==
    IsSome(sub_result) =>
        \A d \in Delimiters, p \in ValidPatterns, r \in Replacements :
            sub_input = Composed(d, p, r, <<>>) =>
                Unwrap(sub_result) =
                    [kind |-> "ok", sub |-> [pattern |-> p, replacement |-> r, global |-> FALSE]]


\* the segments of the text after the delimiter
InputSegments == SegmentsFrom(AfterDelimiter, sub_input[2], 1, 1)

\* the rewrite string gives parse nothing to build a substitution from
Unparsable ==
    \/ Len(sub_input) = 0
    \/ sub_input[1] # "s"
    \/ Len(sub_input) < 2
    \/ Len(InputSegments) < 2

(***************************************************************************)
(* C26: parse returns an InvalidRegex error and no substitution when the   *)
(* input does not start with "s", has fewer than two characters, has no    *)
(* unescaped delimiter after the first one (fewer than two segments), or   *)
(* has a pattern segment that is not a valid regex, the error then naming  *)
(* that segment; in every other case it succeeds.                          *)
(***************************************************************************)
C26_ParseErrors ==
    IsSome(sub_result) =>
        IF Unparsable
        THEN /\ Unwrap(sub_result).kind = "err"
             /\ Unwrap(sub_result).err.kind = "InvalidRegex"
        ELSE IF ~RegexValid(InputSegments[1])
        THEN Unwrap(sub_result) = [kind |-> "err", err |-> InvalidRegex(InputSegments[1])]
        ELSE Unwrap(sub_result).kind = "ok"


\* the rule has a pattern that is not a regular expression
HasBadPattern(rule) ==
    \/ rule.binary_pattern # <<>> /\ rule.binary_pattern[1] \in InvalidPatterns
    \/ rule.cwd_pattern # <<>> /\ rule.cwd_pattern[1] \in InvalidPatterns

\* its first such pattern: the binary pattern comes before the cwd pattern
BadPattern(rule) ==
    IF rule.binary_pattern # <<>> /\ rule.binary_pattern[1] \in InvalidPatterns
    THEN rule.binary_pattern[1]
    ELSE rule.cwd_pattern[1]

\* the rules handed to compile_rules
MergedRules == Unwrap(merged).rules

\* the positions of the merged rules that do not compile
BadRules == {i \in 1..Len(MergedRules) : HasBadPattern(MergedRules[i].rule)}

\* the least element of a set of numbers
Least(S) == CHOOSE i \in S : \A j \in S : i <= j

(***************************************************************************)
(* C27: compile_rules is all or nothing.  When a binary or cwd pattern of  *)
(* any merged rule does not compile, the invocation fails with             *)
(* InvalidRegex naming that pattern, there is no compiled rule and no      *)
(* rule is matched, even when an earlier rule matches the invocation;      *)
(* otherwise there is one compiled rule for each merged rule, in the same  *)
(* order, with the same rule and the same source path.                     *)
(***************************************************************************)
C27_CompileAllOrNothing ==
    IsSome(merged) =>
        IF BadRules # {}
        THEN /\ pc \in {"merged", "failed"}
             /\ rules = <<>>
             /\ matched_rule = None
             /\ pc = "failed" =>
                   result = ErrResult([kind |-> "InvalidRegex",
                                       pattern |-> BadPattern(MergedRules[Least(BadRules)].rule)])
        ELSE /\ pc \in {"merged", "compiled", "matched"}
             /\ pc # "merged" =>
                   /\ Len(rules) = Len(MergedRules)
                   /\ \A i \in 1..Len(rules) :
                         /\ rules[i].rule = MergedRules[i].rule
                         /\ rules[i].source = MergedRules[i].source

\* the first rule matches the invocation, the second has a binary pattern that
\* does not compile: the invocation failed, naming that pattern
C27_Witness ==
    /\ pc = "failed"
    /\ IsSome(merged)
    /\ Len(MergedRules) = 2
    /\ RuleHolds(MergedRules[1].rule)
    /\ ~HasBadPattern(MergedRules[1].rule)
    /\ MergedRules[2].rule.binary_pattern = Some(<<"*", "e">>)
    /\ result = ErrResult([kind |-> "InvalidRegex", pattern |-> <<"*", "e">>])

\* two rules that compile were compiled to two rules
C27_WitnessCompiled ==
    /\ pc = "compiled"
    /\ Len(rules) = 2
    /\ BadRules = {}


RECURSIVE RuleCount(_, _)
\* how many rules the first n configs declare
RuleCount(cs, n) == IF n = 0 THEN 0 ELSE RuleCount(cs, n - 1) + Len(cs[n].config.rules)

(***************************************************************************)
(* C28: merge_configs concatenates: the merged list has as many rules as   *)
(* the configs declare together, the rules of each config stand together   *)
(* in their own order after those of the configs before it, each tagged    *)
(* with the path of its config, and the merged no_external_lookup is true  *)
(* exactly when some config sets it.                                       *)
(***************************************************************************)
C28_MergeConcatenates ==
    pc = "merged" =>
        /\ Len(Unwrap(merged).rules) = RuleCount(configs, Len(configs))
        /\ \A i \in 1..Len(configs) : \A j \in 1..Len(configs[i].config.rules) :
              Unwrap(merged).rules[RuleCount(configs, i - 1) + j] =
                  [rule |-> configs[i].config.rules[j], source |-> configs[i].path]
        /\ Unwrap(merged).no_external_lookup =
              (\E i \in 1..Len(configs) : configs[i].config.no_external_lookup)

\* a config of one rule and, after it, a config of two rules that sets
\* no_external_lookup were merged into three rules with the flag set
C28_Witness ==
    /\ pc = "merged"
    /\ Len(configs) = 2
    /\ Len(configs[1].config.rules) = 1
    /\ ~configs[1].config.no_external_lookup
    /\ Len(configs[2].config.rules) = 2
    /\ configs[2].config.no_external_lookup
    /\ configs[1].path # configs[2].path
    /\ Len(Unwrap(merged).rules) = 3
    /\ Unwrap(merged).no_external_lookup


(***************************************************************************)
(* C29: when the command cannot be found or spawned, the invocation ends   *)
(* there with CommandNotFound or CommandFailed and a failure exit status,  *)
(* and the post-hook is not run, even when the pre-hook of the same rule   *)
(* has run.                                                                *)
(***************************************************************************)
C29_CommandFailureAborts ==
    /\ \A i \in 1..Len(events) :
          (events[i].child.kind = "exec" /\ ~events[i].spawned) =>
              /\ i = Len(events)
              /\ running = None
              /\ pc = "failed"
              /\ ~Unwrap(result).ok
              /\ Unwrap(result).err.kind \in {"CommandNotFound", "CommandFailed"}
              /\ Unwrap(result).err.command = events[i].child.program
              /\ ToolExit = ExitFailure
    /\ (pc = "failed" /\ Unwrap(result).err.kind \in {"CommandNotFound", "CommandFailed"}) =>
          /\ ToolExit = ExitFailure
          /\ \A j \in 1..Len(Children) : Children[j].kind # "post"

\* the rule has a pre-hook and a post-hook; the pre-hook ran and exited with 0,
\* the command could not be spawned, and the invocation failed without the post-hook
C29_Witness ==
    /\ pc = "failed"
    /\ IsSome(matched_rule)
    /\ IsSome(TheRule.post_hook)
    /\ Len(events) = 2
    /\ events[1].child.kind = "pre"
    /\ events[1].status = <<0>>
    /\ events[2].child.kind = "exec"
    /\ ~events[2].spawned
    /\ Unwrap(result).err.kind = "CommandFailed"
    /\ ToolExit = 1


\* the rewrite strings of the scenarios that Substitution::parse does not accept:
\* a/b, s#a, s/(/b/ and s§a§b§
UnparsableRewrites ==
    { <<"a", "/", "b">>,
      <<"s", "#", "a">>,
      <<"s", "/", "(", "/", "b", "/">>,
      <<"s", TwoByteChar, "a", TwoByteChar, "b", TwoByteChar>> }

\* the rewrite of the rule cannot be computed: the alternate command x is nowhere,
\* the rewrite string does not parse, or /b/e is rewritten to x
RewriteFails(rule) ==
    \/ rule.alternate_command = << <<"x">> >>
    \/ rule.arg_rewrite # <<>> /\ rule.arg_rewrite[1] \in UnparsableRewrites
    \/ rule.command_rewrite # <<>> /\ rule.command_rewrite[1] \in UnparsableRewrites
    \/ /\ rule.command_rewrite = << <<"s", "/", "\\", "/", "b", "\\", "/", "e", "/", "x", "/">> >>
       /\ binary_path = <<OriginalBinary>>

(***************************************************************************)
(* C30: the rewrite of the matched rule is computed before any hook is     *)
(* run: no child is started before the final command is known, and when   *)
(* the rewrite fails (an alternate command or a rewritten binary that is   *)
(* not found, a rewrite string that does not parse) the invocation ends    *)
(* with failure and no pre-hook, intercept hook, command or post-hook is   *)
(* run.                                                                    *)
(***************************************************************************)
C30_RewriteBeforeHooks ==
    /\ Children # <<>> => IsSome(final)
    /\ RuleApplied =>
          IF RewriteFails(TheRule)
          THEN /\ pc = "failed"
               /\ ~Unwrap(result).ok
               /\ ToolExit # 0
               /\ final = None
               /\ events = <<>>
               /\ running = None
          ELSE IsSome(final)

\* the matched rule has a pre-hook and a post-hook and a command_rewrite that
\* does not parse: the invocation failed and no child was run
C30_Witness ==
    /\ RuleApplied
    /\ IsSome(TheRule.pre_hook)
    /\ IsSome(TheRule.post_hook)
    /\ TheRule.command_rewrite = << <<"s", "#", "a">> >>
    /\ pc = "failed"
    /\ Unwrap(result).err.kind = "InvalidRegex"
    /\ ToolExit = ExitFailure
    /\ Children = <<>>

\* the same with an intercept hook and an alternate command that is nowhere
C30_WitnessAlternate ==
    /\ RuleApplied
    /\ TheRule.alternate_command = << <<"x">> >>
    /\ pc = "failed"
    /\ Children = <<>>

\* the same with a rewritten binary that is nowhere
C30_WitnessRewritten ==
    /\ RuleApplied
    /\ pc = "failed"
    /\ Unwrap(result).err.kind = "RewrittenCommandNotFound"
    /\ Children = <<>>


(***************************************************************************)
(* C31: when the pre-hook or the intercept hook cannot be started, the     *)
(* invocation ends there with HookFailed and a failure exit status: the    *)
(* command is not run in its place and no post-hook is run.                *)
(***************************************************************************)
C31_HookFailedAborts ==
    \A i \in 1..Len(events) :
        (events[i].child.kind \in {"pre", "intercept"} /\ ~events[i].spawned) =>
            /\ i = Len(events)
            /\ running = None
            /\ pc = "failed"
            /\ result = ErrResult([kind |-> "HookFailed", hook_path |-> events[i].child.program])
            /\ ToolExit = ExitFailure
            /\ exit_code = None
            /\ \A j \in 1..Len(events) : events[j].child.kind \notin {"exec", "post"}

\* the rule has all three hooks; the pre-hook exited with 0, the intercept hook
\* could not be started, and the invocation failed
C31_Witness ==
    /\ pc = "failed"
    /\ IsSome(matched_rule)
    /\ IsSome(TheRule.post_hook)
    /\ Len(events) = 2
    /\ events[1].child.kind = "pre"
    /\ events[1].status = <<0>>
    /\ events[2].child.kind = "intercept"
    /\ ~events[2].spawned
    /\ ToolExit = 1

\* the pre-hook could not be started, and the invocation failed
C31_WitnessPre ==
    /\ pc = "failed"
    /\ Len(events) = 1
    /\ events[1].child.kind = "pre"
    /\ ~events[1].spawned
    /\ ToolExit = 1


\* how many of the merged rules come from the config file at the path
RulesFrom(path) ==
    Cardinality({k \in 1..Len(Unwrap(merged).rules) : Unwrap(merged).rules[k].source = path})

(***************************************************************************)
(* C32: in the list discover_configs returns every config file path        *)
(* occurs at most once, so every declared rule occurs once in the merged   *)
(* rules, also when the home directory is an ancestor of the starting      *)
(* directory and the walk reaches the user's config.                       *)
(***************************************************************************)
C32_NoDuplicatePaths ==
    /\ pc \in {"discovered", "merged"} =>
          \A i, j \in 1..Len(configs) : configs[i].path = configs[j].path => i = j
    /\ pc = "merged" =>
          \A i \in 1..Len(configs) : RulesFrom(configs[i].path) = Len(configs[i].config.rules)


\* the last directory of the cascade
LastCascadeDir == CascadeDirs[Len(CascadeDirs)]

\* the walk has loaded a config that has root or no_external_lookup set
WalkStopped ==
    /\ CascadeDirs # <<>>
    /\ EndsWalk(fs[LastCascadeDir])
    /\ Len(configs) >= Len(CascadeDirs)
    /\ configs[Len(CascadeDirs)].path = ConfigPath(LastCascadeDir)

\* the path is the config of a directory strictly above the last cascade directory
IsAbove(path) == \E a \in Dirs : IsProperAncestor(a, LastCascadeDir) /\ path = ConfigPath(a)

(***************************************************************************)
(* C33 as claimed: a config with root or no_external_lookup set is the     *)
(* last one the walk loads, the config files of the directories strictly   *)
(* above it are never read, and so none of them can abort the resolution.  *)
(***************************************************************************)
C33_NeverReadAbove ==
    WalkStopped =>
        /\ \A j \in 1..Len(reads) : ~IsAbove(reads[j])
        /\ pc = "failed" /\ "path" \in DOMAIN Unwrap(result).err =>
              ~IsAbove(Unwrap(result).err.path)

(***************************************************************************)
(* C33 as amended: a config with root or no_external_lookup set is the     *)
(* last one the walk loads, and the walk never reads the config files of   *)
(* the directories strictly above it.  Above a no_external_lookup config   *)
(* nothing is read at all; above a root config a file is read only by the  *)
(* user-config lookup, when that directory is the home directory, and only *)
(* then can a malformed file there abort the resolution.                   *)
(***************************************************************************)
C33_StopperIsLast ==
    WalkStopped =>
        /\ pc # "walk"
        /\ current_dir = LastCascadeDir
        /\ Len(configs) <= Len(CascadeDirs) + 1
        /\ \A k \in 1..Len(CascadeDirs) : configs[k].path = ConfigPath(CascadeDirs[k])
        /\ \A k \in 1..(Len(CascadeDirs) - 1) :
              ~configs[k].config.root /\ ~configs[k].config.no_external_lookup
        /\ \A j \in 1..Len(reads) :
              IsAbove(reads[j]) =>
                  /\ j = Len(CascadeDirs) + 1
                  /\ ~fs[LastCascadeDir].config.no_external_lookup
                  /\ home # None
                  /\ reads[j] = ConfigPath(Unwrap(home))
        /\ fs[LastCascadeDir].config.no_external_lookup =>
              /\ pc \in {"discovered", "merged"}
              /\ Len(reads) = Len(CascadeDirs)
        /\ pc = "failed" =>
              \/ home = None
              \/ /\ FaultyFile(fs[Unwrap(home)])
                 /\ reads[Len(reads)] = ConfigPath(Unwrap(home))

\* a no_external_lookup config below two directories with malformed configs:
\* the walk loaded it, read nothing above it, and the configs were merged
C33_Witness ==
    /\ pc = "merged"
    /\ WalkStopped
    /\ Len(LastCascadeDir) = MaxDepth
    /\ fs[LastCascadeDir].config.no_external_lookup
    /\ \A a \in Dirs : IsProperAncestor(a, LastCascadeDir) => fs[a].kind = "malformed"
    /\ Len(reads) = Len(CascadeDirs)

\* a root config below the home directory, whose config is malformed: the
\* user-config lookup read it and the resolution failed
C33_WitnessHome ==
    /\ pc = "failed"
    /\ WalkStopped
    /\ home # None
    /\ IsProperAncestor(Unwrap(home), LastCascadeDir)
    /\ fs[Unwrap(home)].kind = "malformed"
    /\ Unwrap(result).err = [kind |-> "ConfigParseError", path |-> ConfigPath(Unwrap(home))]


\* the walk has loaded a config that has no_external_lookup set
NoExternalLookupLoaded == WalkStopped /\ fs[LastCascadeDir].config.no_external_lookup

(***************************************************************************)
(* C34: once the walk has loaded a config with no_external_lookup set,     *)
(* discover_configs has returned the configs of the walk: the user-config  *)
(* lookup is not attempted, so nothing fails (a missing home directory     *)
(* included) and no user config is read or loaded, whatever root and the   *)
(* named environment variable are.                                         *)
(***************************************************************************)
C34_NoExternalLookupReturns ==
    NoExternalLookupLoaded =>
        /\ pc \in {"discovered", "merged"}
        /\ result = None
        /\ ~skip_cascade
        /\ Len(configs) = Len(CascadeDirs)
        /\ configs[Len(configs)].config.no_external_lookup
        /\ reads = [k \in 1..Len(configs) |-> configs[k].path]
        /\ home # None => \A k \in 1..Len(configs) :
              configs[k].path = ConfigPath(Unwrap(home)) => IsProperAncestor(LastCascadeDir, Unwrap(home))
                                                             \/ LastCascadeDir = Unwrap(home)

\* no home directory, and the config sets no_external_lookup only
C34_Witness ==
    /\ pc = "merged"
    /\ NoExternalLookupLoaded
    /\ home = None
    /\ ~fs[LastCascadeDir].config.root
    /\ Len(configs) = 2

\* no home directory, root is set too, the named variable is not truthy
C34_WitnessRoot ==
    /\ pc = "merged"
    /\ NoExternalLookupLoaded
    /\ home = None
    /\ fs[LastCascadeDir].config.root
    /\ fs[LastCascadeDir].config.root_config_lookup_disable_env_var = Some(CI)
    /\ ~IsEnvTruthy(env[CI])

\* the home directory has a config, and the named variable is truthy
C34_WitnessHome ==
    /\ pc = "merged"
    /\ NoExternalLookupLoaded
    /\ home = Some(OtherHome)
    /\ fs[OtherHome].kind = "toml"
    /\ fs[LastCascadeDir].config.root_config_lookup_disable_env_var = Some(CI)
    /\ IsEnvTruthy(env[CI])


\* the invocation has its final exit status: an exit code or an error
IsFinal == pc \in {"done", "failed"}

\* current_dir is replaced by the directory one level up
MovesUp == Len(current_dir) > 0 /\ current_dir' = SubSeq(current_dir, 1, Len(current_dir) - 1)

(***************************************************************************)
(* C35: the cascade walk terminates: while walking, current_dir changes    *)
(* only to its parent, the walk does not go on from a directory without a  *)
(* parent, and a walk that has begun ends; and when every hook and the     *)
(* executed command terminate, the invocation reaches its final exit       *)
(* status.                                                                 *)
(***************************************************************************)
C35_Terminates ==
    /\ [][/\ current_dir' # current_dir => pc = "walk" /\ MovesUp
          /\ pc = "walk" /\ current_dir = <<>> => pc' # "walk"
          /\ pc = "walk" /\ pc' = "walk" => current_dir' # current_dir]_vars
    /\ (pc = "walk") ~> (pc # "walk")
    /\ <>IsFinal

\* the walk went from the deepest directory to the top, every child ran, and the
\* invocation ended with the command's exit code
C35_Witness ==
    /\ pc = "done"
    /\ cwd = DirAt(MaxDepth)
    /\ current_dir = <<>>
    /\ [i \in 1..Len(events) |-> events[i].child.kind] = <<"pre", "exec", "post">>
    /\ exit_code # None


\* the argument vectors of the other invocation
OtherArgs == ArgVectors \cup {<< <<"/", "b", "/", "e">> >>, << <<"c">>, <<"/", "p", "/", "q">> >>}

\* the same rule list, binary path and working directory, with other arguments
ContextWith(args) == [MatchContext EXCEPT !.args = args]

(***************************************************************************)
(* C36: the rule that is selected does not depend on the arguments: with   *)
(* the same compiled rule list, binary path and working directory,         *)
(* find_matching_rule selects for every other argument vector the rule it  *)
(* selected for this invocation, or none when it selected none.            *)
(***************************************************************************)
C36_ArgumentsIgnored ==
    pc = "matched" =>
        \A args \in OtherArgs :
            /\ FindMatchingRule(rules, ContextWith(args)) = matched_rule
            /\ \A i \in 1..Len(rules) :
                  Matches(rules[i], ContextWith(args)) <=> Matches(rules[i], MatchContext)

\* the second rule was selected for an invocation with an argument; its binary
\* pattern matches the binary path and not the argument
C36_Witness ==
    /\ pc = "matched"
    /\ command_args = << <<"a">> >>
    /\ Len(rules) = 2
    /\ matched_rule = <<2>>
    /\ ListedRules[2].binary_pattern # <<>>

\* no rule was selected for an invocation without arguments
C36_WitnessNone ==
    /\ pc = "matched"
    /\ command_args = <<>>
    /\ Len(rules) = 2
    /\ matched_rule = <<>>


(***************************************************************************)
(* rewrite_args and rewrite_command on their own: a substitution is parsed *)
(* and then handed, with a binary and an argument vector, to one of them.  *)
(* The arguments may be empty and may contain whitespace.                  *)
(***************************************************************************)
MaxArgs == 2

\* "", a, X, a blank, "a b", "a<tab>"
ArgStrings == { <<>>, <<"a">>, <<"X">>, <<" ">>, <<"a", " ", "b">>, <<"a", "\t">> }
CallPatterns ==
    { <<"a">>, <<"b">>, <<"X">>, <<"a", "a">>, <<".">>, <<"^", "a">>, <<"a", "$">>, <<"a", "*">>,
      <<" ">>, <<"e">> }
CallReplacements == { <<>>, <<"b">>, <<" ">>, <<"b", " ", "c">> }
CallFlags == { <<>>, <<"g">> }
CallBinaries == { <<"/", "b", "/", "e">>, <<"a">> }

InitRewriteCalls ==
    /\ sub_input \in {Composed("/", p, r, f) : p \in CallPatterns, r \in CallReplacements, f \in CallFlags}
    /\ sub_parts = None
    /\ sub_result = None
    /\ apply_input = <<>>
    /\ apply_output = None
    /\ cwd = DirAt(0)
    /\ home = None
    /\ env = [n \in EnvNames |-> None]
    /\ fs = [d \in Dirs \cup {OtherHome} |-> AbsentFile]
    /\ WalkEntry
    /\ command_name = <<>>
    /\ command_args \in SeqsUpTo(ArgStrings, MaxArgs)
    /\ binary_path \in {Some(b) : b \in CallBinaries}
    /\ rules = <<>>
    /\ matched_rule = None
    /\ final = None
    /\ exit_code = None
    /\ running = None
    /\ events = <<>>
    /\ warnings = <<>>
    /\ pc = "rewriter"

\* rewrite_args(args, &sub), as apply_rule calls it: the binary stays
RewriteArgsCall ==
    /\ pc = "rewriter"
    /\ IsSome(sub_result)
    /\ Unwrap(sub_result).kind = "ok"
    /\ final' = Some([binary |-> Unwrap(binary_path),
                      args |-> RewriteArgs(command_args, Unwrap(sub_result).sub)])
    /\ pc' = "args_rewritten"
    /\ UNCHANGED <<worldVars, cascadeVars, binary_path, rules, matched_rule, exit_code,
                   running, events, warnings, result>>

\* rewrite_command(&binary_str, args, &sub)
RewriteCommandCall ==
    /\ pc = "rewriter"
    /\ IsSome(sub_result)
    /\ Unwrap(sub_result).kind = "ok"
    /\ final' = Some(RewriteCommand(Unwrap(binary_path), command_args, Unwrap(sub_result).sub))
    /\ pc' = "command_rewritten"
    /\ UNCHANGED <<worldVars, cascadeVars, binary_path, rules, matched_rule, exit_code,
                   running, events, warnings, result>>

NextRewriteCalls == Parse \/ RewriteArgsCall \/ RewriteCommandCall

SpecRewriteCalls == InitRewriteCalls /\ [][NextRewriteCalls]_vars

(***************************************************************************)
(* What the calls should give, read off the texts position by position.    *)
(***************************************************************************)
Blank(c) == c = " " \/ c = "\t"

\* the string is not empty and has no whitespace in it
IsClean(str) == str # <<>> /\ \A k \in 1..Len(str) : ~Blank(str[k])

\* the positions where a word of the text begins
WordStarts(text) == {i \in 1..Len(text) : ~Blank(text[i]) /\ (i = 1 \/ Blank(text[i - 1]))}

\* the word that begins at position i
WordAt(text, i) ==
    SubSeq(text, i, CHOOSE j \in i..Len(text) :
                        /\ \A k \in i..j : ~Blank(text[k])
                        /\ j = Len(text) \/ Blank(text[j + 1]))

\* the words of the text, from left to right
Words(text) ==
    [n \in 1..Cardinality(WordStarts(text)) |->
        WordAt(text, CHOOSE i \in WordStarts(text) :
                        Cardinality({h \in WordStarts(text) : h < i}) = n - 1)]

\* the pattern of CallPatterns has a match in the text
HasMatch(p, text) ==
    CASE p = <<".">> -> text # <<>>
      [] p = <<"^", "a">> -> text # <<>> /\ text[1] = "a"
      [] p = <<"a", "$">> -> text # <<>> /\ text[Len(text)] = "a"
      [] p = <<"a", "*">> -> TRUE
      [] OTHER -> \E i \in 1..Len(text) : OccursAt(p, text, i)

\* the text after the substitution of p by r
ExpectedRewritten(p, r, f, text) ==
    IF p \in {<<" ">>, <<"e">>}
    THEN ReplaceLiteralFrom(text, 1, p, r, f = <<"g">>)
    ELSE ExpectedApply(p, r, f = <<"g">>, text)

\* the arguments, a blank between neighbours
JoinedArgs ==
    IF Len(command_args) = 0 THEN <<>>
    ELSE IF Len(command_args) = 1 THEN command_args[1]
    ELSE command_args[1] \o <<" ">> \o command_args[2]
             \o (IF Len(command_args) > 2 THEN <<" ">> \o command_args[3] ELSE <<>>)

(***************************************************************************)
(* C37: rewrite_args returns no empty token and no token with whitespace   *)
(* in it.  When the pattern has no match in the joined arguments, it       *)
(* returns the arguments as they were if each of them is non-empty and     *)
(* free of whitespace; otherwise it returns something else, the words of   *)
(* the joined arguments: empty arguments are gone and arguments with       *)
(* whitespace are split.                                                   *)
(***************************************************************************)
C37_RewriteArgsTokens ==
    pc = "args_rewritten" =>
        /\ \A i \in 1..Len(Unwrap(final).args) : IsClean(Unwrap(final).args[i])
        /\ \A p \in CallPatterns, r \in CallReplacements, f \in CallFlags :
              (sub_input = Composed("/", p, r, f) /\ ~HasMatch(p, JoinedArgs)) =>
                  /\ Unwrap(final).args = Words(JoinedArgs)
                  /\ IF \A i \in 1..Len(command_args) : IsClean(command_args[i])
                     THEN Unwrap(final).args = command_args
                     ELSE Unwrap(final).args # command_args

\* s/X/b/ on the clean arguments a a: nothing matches, nothing changes
C37_Witness ==
    /\ pc = "args_rewritten"
    /\ sub_input = Composed("/", <<"X">>, <<"b">>, <<>>)
    /\ command_args = << <<"a">>, <<"a">> >>
    /\ Unwrap(final).args = << <<"a">>, <<"a">> >>

\* s/X/b/ on the arguments "" and "a b": nothing matches, the empty argument is
\* gone and the other one is split
C37_WitnessSplit ==
    /\ pc = "args_rewritten"
    /\ sub_input = Composed("/", <<"X">>, <<"b">>, <<>>)
    /\ command_args = << <<>>, <<"a", " ", "b">> >>
    /\ Unwrap(final).args = << <<"a">>, <<"b">> >>

\* s/a/b c/ on the argument a: the replacement brings a blank, two tokens come back
C37_WitnessReplaced ==
    /\ pc = "args_rewritten"
    /\ sub_input = Composed("/", <<"a">>, <<"b", " ", "c">>, <<>>)
    /\ command_args = << <<"a">> >>
    /\ Unwrap(final).args = << <<"b">>, <<"c">> >>

\* the command string: the binary, then the arguments, a blank between neighbours
JoinedCommand ==
    IF command_args = <<>> THEN Unwrap(binary_path)
    ELSE Unwrap(binary_path) \o <<" ">> \o JoinedArgs

(***************************************************************************)
(* C38: rewrite_command returns a binary name that is not empty: when the  *)
(* rewritten command string has no token in it, being empty or whitespace  *)
(* only, the binary is the original one and there are no arguments;        *)
(* otherwise the binary is the first token.                                *)
(***************************************************************************)
C38_BinaryNeverEmpty ==
    pc = "command_rewritten" =>
        /\ Unwrap(final).binary # <<>>
        /\ \A p \in CallPatterns, r \in CallReplacements, f \in CallFlags :
              sub_input = Composed("/", p, r, f) =>
                  IF \A k \in 1..Len(ExpectedRewritten(p, r, f, JoinedCommand)) :
                        Blank(ExpectedRewritten(p, r, f, JoinedCommand)[k])
                  THEN Unwrap(final) = [binary |-> Unwrap(binary_path), args |-> <<>>]
                  ELSE Unwrap(final).binary = Words(ExpectedRewritten(p, r, f, JoinedCommand))[1]

\* s/.//g on "/b/e a": nothing is left, the binary is the original one and the
\* argument is gone
C38_Witness ==
    /\ pc = "command_rewritten"
    /\ sub_input = Composed("/", <<".">>, <<>>, <<"g">>)
    /\ binary_path = Some(<<"/", "b", "/", "e">>)
    /\ command_args = << <<"a">> >>
    /\ Unwrap(final) = [binary |-> <<"/", "b", "/", "e">>, args |-> <<>>]

\* s/a*/ / on "a": a blank is left
C38_WitnessBlank ==
    /\ pc = "command_rewritten"
    /\ sub_input = Composed("/", <<"a", "*">>, <<" ">>, <<>>)
    /\ binary_path = Some(<<"a">>)
    /\ command_args = <<>>
    /\ Unwrap(final) = [binary |-> <<"a">>, args |-> <<>>]


(***************************************************************************)
(* C39: Substitution::parse is total: whatever the rewrite string, a       *)
(* delimiter of more than one byte included, it returns a Substitution or  *)
(* an InvalidRegex error, and the process goes on.                         *)
(***************************************************************************)
C39_ParseTotal ==
    pc = "rewriter" /\ IsSome(sub_result) =>
        \/ /\ Unwrap(sub_result).kind = "ok"
           /\ DOMAIN Unwrap(sub_result).sub = {"pattern", "replacement", "global"}
        \/ /\ Unwrap(sub_result).kind = "err"
           /\ Unwrap(sub_result).err.kind = "InvalidRegex"

====
